---- MODULE Spec2Model ----
(***************************************************************************)
(* Workspace / session orchestration core of CodexMonitor                  *)
(* (src-tauri/src/workspaces/commands.rs).                                 *)
(*                                                                         *)
(* The registry (state.workspaces), the sessions map (state.sessions) and  *)
(* the persisted workspace list are shared by concurrently running         *)
(* commands.  Every command is cut into steps at the points where it       *)
(* releases one lock and awaits something else (another lock, a spawn, a   *)
(* Git call, a storage write), so that the interleavings of the model are  *)
(* the interleavings of the tokio tasks.                                   *)
(***************************************************************************)
EXTENDS Integers, FiniteSets, Sequences, TLC

(* ------------------------------ bounds -------------------------------- *)
MaxIds == 4
MaxSpawn == 4
MaxCmds == 2
MaxSuffix == 3

Tasks == {"t1", "t2"}
Ids == 1..MaxIds
Pids == 1..MaxSpawn

(* ------------------------------ values -------------------------------- *)
\* Option<String> values: <<>> is None.
HomeVals == {<<>>, <<"h">>}
ArgVals == {<<>>, <<"x">>}
BinVals == {<<>>, <<"bin">>}
\* app_settings.codex_args, read under the app-settings lock; no workspace
\* command writes it.
GlobalArgs == <<"g">>

\* Branch strings as character sequences, so that trim() is computed.
BranchInputs == {<<>>, <<" ">>, <<"a">>, <<"b">>, <<" ", "a">>}

RECURSIVE TrimStart(_)
TrimStart(s) == IF s # <<>> /\ Head(s) = " " THEN TrimStart(Tail(s)) ELSE s

RECURSIVE TrimEnd(_)
TrimEnd(s) ==
  IF s # <<>> /\ s[Len(s)] = " " THEN TrimEnd(SubSeq(s, 1, Len(s) - 1)) ELSE s

Trim(s) == TrimEnd(TrimStart(s))

DefaultSettings == [codex_home |-> <<>>, codex_args |-> <<>>]
SettingsVals == [codex_home : HomeVals, codex_args : ArgVals]

NoEntry ==
  [id |-> 0, kind |-> "None", parent_id |-> 0, branch |-> <<>>,
   path |-> <<>>, codex_bin |-> <<>>, settings |-> DefaultSettings]

\* WorkspaceInfo: the entry's fields and whether a session is connected.
WorkspaceInfo(entry, connected) ==
  [id |-> entry.id, kind |-> entry.kind, parent_id |-> entry.parent_id,
   branch |-> entry.branch, path |-> entry.path, codex_bin |-> entry.codex_bin,
   settings |-> entry.settings, connected |-> connected]

\* No WorkspaceInfo returned.
NoInfo == WorkspaceInfo(NoEntry, FALSE)

MainEntry(id, path, bin, settings) ==
  [id |-> id, kind |-> "Main", parent_id |-> 0, branch |-> <<>>,
   path |-> path, codex_bin |-> bin, settings |-> settings]

WorktreeEntry(id, parent, branch, path, bin) ==
  [id |-> id, kind |-> "Worktree", parent_id |-> parent, branch |-> branch,
   path |-> path, codex_bin |-> bin, settings |-> DefaultSettings]

IsWorktree(e) == e.kind = "Worktree"

(* HashMap operations on functions whose domain is the set of keys. *)
Insert(m, k, v) == [x \in (DOMAIN m) \cup {k} |-> IF x = k THEN v ELSE m[x]]
Remove(m, k) == [x \in (DOMAIN m) \ {k} |-> m[x]]
RemoveAll(m, ks) == [x \in (DOMAIN m) \ ks |-> m[x]]
Get(m, k) == IF k \in DOMAIN m THEN m[k] ELSE NoEntry
EmptyMap == <<>>

(* ------------------------------ state --------------------------------- *)
VARIABLES
  workspaces,   \* state.workspaces : id -> WorkspaceEntry
  persisted,    \* the list last written by write_workspaces, keyed by id
  sessions,     \* state.sessions : id -> process of the session
  live,         \* processes spawned and not yet sent a kill request
  dirs,         \* worktree / clone directories present on disk
  nextId,       \* ids handed out so far (Uuid::new_v4 never repeats)
  nextPid,      \* processes spawned so far
  cmds,         \* commands started so far
  ioFailed,     \* history: some write_workspaces call has failed
  remote,       \* remote_backend::is_remote_mode: the process-wide mode flag
  branches,     \* local branches of the parents' repositories: <<parent, name>>
  repo,         \* working trees and remote of the repository of Main 1
  task          \* per task: the running command, its position and locals

vars ==
  <<workspaces, persisted, sessions, live, dirs, nextId, nextPid, cmds,
    ioFailed, remote, branches, repo, task>>

\* No output of a child process collected yet.
NoOutput == [success |-> TRUE, stdout |-> <<>>, stderr |-> <<>>]

IdleTask ==
  [op |-> "none", pc |-> "idle", id |-> 0, entry |-> NoEntry,
   parent |-> NoEntry, prev |-> NoEntry, child |-> NoEntry,
   children |-> {}, todo |-> {}, sess |-> 0, list |-> EmptyMap,
   branch |-> <<>>, flag |-> FALSE, ret |-> "", seq |-> 0,
   log |-> <<>>, out |-> NoOutput,
   old_branch |-> <<>>, new_branch |-> <<>>, remote_name |-> "",
   info |-> NoInfo, guard |-> FALSE, held |-> {}, at |-> 0]

\* A task that is idle, or whose command has returned (the result stays
\* readable until the task takes its next command).
Quiet(t) == task[t].pc \in {"idle", "done"}
CanStart(t) == Quiet(t) /\ cmds < MaxCmds
\* state.workspaces is a mutex: guard marks the task that holds its guard
\* from one step to the next.  Every critical section of the commands is
\* taken and left within one step, so a step that locks the registry needs
\* the mutex to be free.
RegistryFree == \A u \in Tasks : ~task[u].guard

\* The command passed its is_remote_mode check and executes locally.
LocalMode(t) == CanStart(t) /\ ~remote

\* seq numbers the commands in the order in which they were issued.
Begin(t, op, id, pc) ==
  [IdleTask EXCEPT !.op = op, !.id = id, !.pc = pc, !.seq = cmds + 1]
Finish(t, ret) ==
  [IdleTask EXCEPT !.op = task[t].op, !.id = task[t].id, !.pc = "done",
                   !.ret = ret, !.seq = task[t].seq]
Goto(t, pc) == [task[t] EXCEPT !.pc = pc]

(* --------------------- collaborators outside src/ ---------------------- *)
\* crate::codex_home::resolve_workspace_codex_home
resolve_workspace_codex_home(entry, parent) ==
  IF entry.settings.codex_home # <<>> THEN <<"override", entry.settings.codex_home>>
  ELSE IF IsWorktree(entry) /\ parent.kind # "None"
            /\ parent.settings.codex_home # <<>>
       THEN <<"override", parent.settings.codex_home>>
       ELSE <<"default", entry.id>>

\* crate::codex_args::resolve_workspace_codex_args
resolve_workspace_codex_args(entry, parent) ==
  GlobalArgs
    \o (IF IsWorktree(entry) /\ parent.kind # "None"
        THEN parent.settings.codex_args ELSE <<>>)
    \o entry.settings.codex_args

\* super::settings::apply_workspace_settings_update: the map after the call.
apply_workspace_settings_update(ws, id, settings) ==
  [ws EXCEPT ![id].settings = settings]

\* super::worktree::unique_worktree_path: base name, then numeric suffixes,
\* until the path does not exist on disk.
unique_worktree_path(root, name) ==
  LET free == {k \in 1..MaxSuffix : <<root, name, k>> \notin dirs}
  IN <<root, name, CHOOSE k \in free : \A j \in free : k <= j>>

HasFreePath(root, name) ==
  \E k \in 1..MaxSuffix : <<root, name, k>> \notin dirs

(* ------------------------------- Init ---------------------------------- *)
\* The registry as loaded from storage at start-up: a main workspace with
\* one worktree, connected or not (connect_workspace is issued per entry by
\* the front end).
LoadedRegistry ==
  Insert(Insert(EmptyMap, 1, MainEntry(1, <<0, <<"m">>, 1>>, <<>>, DefaultSettings)),
         2, WorktreeEntry(2, 1, <<"a">>, <<1, <<"a">>, 1>>, <<>>))

\* The local branches of the repository of Main 1: the branch of worktree 2.
LoadedBranches == {<<1, <<"a">>>>}

\* The repository of Main 1 outside the registry's view: the parent's
\* working tree (porcelain status empty or not), the kinds of change present
\* in worktree 2, the remote each local branch tracks (<<branch, remote>>),
\* whether a remote named origin is configured, and the branches present on
\* the remotes (<<remote, branch>>).
QuietRepo ==
  [parentDirty |-> FALSE, changes |-> {}, tracked |-> {}, hasOrigin |-> FALSE,
   remoteRefs |-> {}]

Init ==
  /\ workspaces = LoadedRegistry
  /\ persisted = LoadedRegistry
  /\ \E c \in SUBSET {1, 2} : sessions = [i \in c |-> i]
  /\ live = DOMAIN sessions
  /\ dirs = {<<1, <<"a">>, 1>>}
  /\ nextId = 3
  /\ nextPid = 3
  /\ cmds = 0
  /\ ioFailed = FALSE
  /\ remote \in BOOLEAN
  /\ branches = LoadedBranches
  /\ repo = QuietRepo
  /\ task = [t \in Tasks |-> IdleTask]

\* super::worktree::sanitize_worktree_name: path separators become dashes.
sanitize_worktree_name(b) ==
  [i \in 1..Len(b) |-> IF b[i] \in {"/", "\\", " "} THEN "-" ELSE b[i]]

\* crate::codex::spawn_workspace_session, when it succeeds: a new process.
SpawnOk(pid) ==
  /\ nextPid <= MaxSpawn
  /\ pid = nextPid
  /\ nextPid' = nextPid + 1
  /\ live' = live \cup {pid}

\* crate::storage::write_workspaces: the whole list replaces the stored one,
\* or the write fails and the stored list stays.
write_workspaces(list, ok) ==
  IF ok THEN persisted' = list /\ UNCHANGED ioFailed
        ELSE UNCHANGED persisted /\ ioFailed' = TRUE

\* child.kill(): the result is discarded by every caller.
Kill(pids) == live' = live \ pids

(* ------------------------------ remote mode ---------------------------- *)
\* The commands that start with the is_remote_mode check.
RemoteMethods ==
  {"list_workspaces", "add_workspace", "add_worktree", "remove_workspace",
   "remove_worktree", "rename_worktree", "rename_worktree_upstream",
   "update_workspace_settings", "update_workspace_codex_bin",
   "connect_workspace", "list_workspace_files"}

\* remote_backend::call_remote: the command is forwarded and its result is
\* the peer's answer or the transport's error; nothing runs locally.
call_remote(t) ==
  /\ CanStart(t)
  /\ remote
  /\ \E method \in RemoteMethods, ok \in BOOLEAN :
       task' = [task EXCEPT ![t] =
         [Begin(t, method, 0, "done") EXCEPT
            !.ret = IF ok THEN "remote ok" ELSE "remote error"]]
  /\ cmds' = cmds + 1
  /\ UNCHANGED <<workspaces, persisted, sessions, live, dirs, nextId, nextPid,
                 ioFailed, remote, branches, repo>>

(* ------------------------------ list_workspaces ------------------------ *)
\* The WorkspaceInfo of every registry entry, read under the registry and
\* the sessions lock (the order given by sort_workspaces is left out).
\* The list with every entry reported as connected.
list_workspaces_connected ==
  [i \in DOMAIN workspaces |-> WorkspaceInfo(workspaces[i], TRUE)]

list_workspaces ==
  [i \in DOMAIN workspaces |-> WorkspaceInfo(workspaces[i], i \in DOMAIN sessions)]

ListWorkspaces(t) ==
  /\ RegistryFree
  /\ LocalMode(t)
  /\ task' = [task EXCEPT ![t] =
       [Begin(t, "list_workspaces", 0, "done") EXCEPT
          !.ret = "Ok", !.list = list_workspaces]]
  /\ cmds' = cmds + 1
  /\ UNCHANGED <<workspaces, persisted, sessions, live, dirs, nextId, nextPid,
                 ioFailed, remote, branches, repo>>

(* ----------------------------- add_workspace --------------------------- *)
StartAddWorkspace(t) ==
  /\ LocalMode(t)
  /\ nextId <= MaxIds
  /\ \E isDir \in BOOLEAN, bin \in BinVals :
       IF ~isDir
       THEN /\ task' = [task EXCEPT ![t] =
                 [Begin(t, "add_workspace", 0, "done") EXCEPT
                    !.ret = "Workspace path must be a folder."]]
            /\ UNCHANGED nextId
       ELSE /\ task' = [task EXCEPT ![t] =
                 [Begin(t, "add_workspace", 0, "aw_spawn") EXCEPT
                    !.entry = MainEntry(nextId, <<0, <<"m">>, 1>>, bin, DefaultSettings)]]
            /\ nextId' = nextId + 1
  /\ cmds' = cmds + 1
  /\ UNCHANGED <<workspaces, persisted, sessions, live, dirs, nextPid, ioFailed>>
  /\ UNCHANGED <<remote, branches, repo>>

AddWorkspaceSpawn(t) ==
  /\ task[t].pc = "aw_spawn"
  /\ \/ \E pid \in Pids :
          /\ SpawnOk(pid)
          /\ task' = [task EXCEPT ![t] = [Goto(t, "aw_insert") EXCEPT !.sess = pid]]
     \/ /\ task' = [task EXCEPT ![t] = Finish(t, "spawn failed")]
        /\ UNCHANGED <<live, nextPid>>
  /\ UNCHANGED <<workspaces, persisted, sessions, dirs, nextId, cmds, ioFailed>>
  /\ UNCHANGED <<remote, branches, repo>>

AddWorkspaceInsert(t) ==
  /\ RegistryFree
  /\ task[t].pc = "aw_insert"
  /\ workspaces' = Insert(workspaces, task[t].entry.id, task[t].entry)
  /\ \E ok \in BOOLEAN :
       /\ write_workspaces(workspaces', ok)
       /\ task' = [task EXCEPT ![t] =
            Goto(t, IF ok THEN "aw_sessions" ELSE "aw_rollback")]
  /\ UNCHANGED <<sessions, live, dirs, nextId, nextPid, cmds>>
  /\ UNCHANGED <<remote, branches, repo>>

AddWorkspaceRollback(t) ==
  /\ RegistryFree
  /\ task[t].pc = "aw_rollback"
  /\ workspaces' = Remove(workspaces, task[t].entry.id)
  /\ Kill({task[t].sess})
  /\ task' = [task EXCEPT ![t] = Finish(t, "write failed")]
  /\ UNCHANGED <<persisted, sessions, dirs, nextId, nextPid, cmds, ioFailed>>
  /\ UNCHANGED <<remote, branches, repo>>

\* The return of add_workspace without the insertion into the sessions map.
AddWorkspaceSessionsSkipped(t) ==
  /\ task[t].pc = "aw_sessions"
  /\ task' = [task EXCEPT ![t] =
       [Finish(t, "Ok") EXCEPT !.info = WorkspaceInfo(task[t].entry, TRUE)]]
  /\ UNCHANGED <<workspaces, persisted, sessions, live, dirs, nextId, nextPid,
                 cmds, ioFailed>>
  /\ UNCHANGED <<remote, branches, repo>>

\* The session is stored and the WorkspaceInfo returned, connected: true.
AddWorkspaceSessions(t) ==
  /\ task[t].pc = "aw_sessions"
  /\ sessions' = Insert(sessions, task[t].entry.id, task[t].sess)
  /\ task' = [task EXCEPT ![t] =
       [Finish(t, "Ok") EXCEPT !.info = WorkspaceInfo(task[t].entry, TRUE)]]
  /\ UNCHANGED <<workspaces, persisted, live, dirs, nextId, nextPid, cmds, ioFailed>>
  /\ UNCHANGED <<remote, branches, repo>>

(* ------------------------------- add_clone ----------------------------- *)
\* super::worktree::build_clone_destination_path
build_clone_destination_path(name) == unique_worktree_path(0, name)

StartAddClone(t) ==
  /\ RegistryFree
  /\ CanStart(t)
  /\ nextId <= MaxIds
  /\ \E src \in Ids, nameOk \in BOOLEAN :
       IF ~nameOk
       THEN /\ task' = [task EXCEPT ![t] =
                 [Begin(t, "add_clone", src, "done") EXCEPT
                    !.ret = "Copy name is required."]]
            /\ UNCHANGED nextId
       ELSE IF src \notin DOMAIN workspaces
       THEN /\ task' = [task EXCEPT ![t] =
                 [Begin(t, "add_clone", src, "done") EXCEPT
                    !.ret = "source workspace not found"]]
            /\ UNCHANGED nextId
       ELSE /\ HasFreePath(0, <<"c">>)
            /\ task' = [task EXCEPT ![t] =
                 [Begin(t, "add_clone", src, "ac_git") EXCEPT
                    !.entry = MainEntry(nextId, build_clone_destination_path(<<"c">>),
                                        workspaces[src].codex_bin, DefaultSettings)]]
            /\ nextId' = nextId + 1
  /\ cmds' = cmds + 1
  /\ UNCHANGED <<workspaces, persisted, sessions, live, dirs, nextPid, ioFailed>>
  /\ UNCHANGED <<remote, branches, repo>>

AddCloneGit(t) ==
  /\ task[t].pc = "ac_git"
  /\ \/ /\ task[t].entry.path \notin dirs
        /\ dirs' = dirs \cup {task[t].entry.path}
        /\ task' = [task EXCEPT ![t] = Goto(t, "ac_spawn")]
     \/ /\ dirs' = dirs \ {task[t].entry.path}
        /\ task' = [task EXCEPT ![t] = Finish(t, "git failed")]
  /\ UNCHANGED <<workspaces, persisted, sessions, live, nextId, nextPid, cmds,
                 ioFailed>>
  /\ UNCHANGED <<remote, branches, repo>>

AddCloneSpawn(t) ==
  /\ task[t].pc = "ac_spawn"
  /\ \/ \E pid \in Pids :
          /\ SpawnOk(pid)
          /\ task' = [task EXCEPT ![t] = [Goto(t, "ac_insert") EXCEPT !.sess = pid]]
          /\ UNCHANGED dirs
     \/ /\ dirs' = dirs \ {task[t].entry.path}
        /\ task' = [task EXCEPT ![t] = Finish(t, "spawn failed")]
        /\ UNCHANGED <<live, nextPid>>
  /\ UNCHANGED <<workspaces, persisted, sessions, nextId, cmds, ioFailed>>
  /\ UNCHANGED <<remote, branches, repo>>

AddCloneInsert(t) ==
  /\ RegistryFree
  /\ task[t].pc = "ac_insert"
  /\ workspaces' = Insert(workspaces, task[t].entry.id, task[t].entry)
  /\ \E ok \in BOOLEAN :
       /\ write_workspaces(workspaces', ok)
       /\ task' = [task EXCEPT ![t] =
            Goto(t, IF ok THEN "ac_sessions" ELSE "ac_rollback")]
  /\ UNCHANGED <<sessions, live, dirs, nextId, nextPid, cmds>>
  /\ UNCHANGED <<remote, branches, repo>>

AddCloneRollback(t) ==
  /\ RegistryFree
  /\ task[t].pc = "ac_rollback"
  /\ workspaces' = Remove(workspaces, task[t].entry.id)
  /\ Kill({task[t].sess})
  /\ dirs' = dirs \ {task[t].entry.path}
  /\ task' = [task EXCEPT ![t] = Finish(t, "write failed")]
  /\ UNCHANGED <<persisted, sessions, nextId, nextPid, cmds, ioFailed>>
  /\ UNCHANGED <<remote, branches, repo>>

AddCloneSessions(t) ==
  /\ task[t].pc = "ac_sessions"
  /\ sessions' = Insert(sessions, task[t].entry.id, task[t].sess)
  /\ task' = [task EXCEPT ![t] = Finish(t, "Ok")]
  /\ UNCHANGED <<workspaces, persisted, live, dirs, nextId, nextPid, cmds, ioFailed>>
  /\ UNCHANGED <<remote, branches, repo>>

(* ------------------------------ add_worktree --------------------------- *)
\* add_worktree with the kind check placed before the branch check.
StartAddWorktreeKindFirst(t) ==
  /\ RegistryFree
  /\ LocalMode(t)
  /\ nextId <= MaxIds
  /\ \E parent_id \in Ids, input \in BranchInputs :
       LET branch == Trim(input)
           fail(msg) ==
             /\ task' = [task EXCEPT ![t] =
                  [Begin(t, "add_worktree", parent_id, "done") EXCEPT
                     !.ret = msg, !.branch = input]]
             /\ UNCHANGED nextId
       IN IF parent_id \notin DOMAIN workspaces
          THEN fail("parent workspace not found")
          ELSE IF IsWorktree(workspaces[parent_id])
          THEN fail("Cannot create a worktree from another worktree.")
          ELSE IF branch = <<>> THEN fail("Branch name is required.")
          ELSE /\ HasFreePath(parent_id, sanitize_worktree_name(branch))
               /\ task' = [task EXCEPT ![t] =
                    [Begin(t, "add_worktree", parent_id, "wt_git") EXCEPT
                       !.branch = input,
                       !.parent = workspaces[parent_id],
                       !.entry = WorktreeEntry(nextId, parent_id, branch,
                          unique_worktree_path(parent_id,
                                               sanitize_worktree_name(branch)),
                          workspaces[parent_id].codex_bin)]]
               /\ nextId' = nextId + 1
  /\ cmds' = cmds + 1
  /\ UNCHANGED <<workspaces, persisted, sessions, live, dirs, nextPid, ioFailed>>
  /\ UNCHANGED <<remote, branches, repo>>

StartAddWorktree(t) ==
  /\ RegistryFree
  /\ LocalMode(t)
  /\ nextId <= MaxIds
  /\ \E parent_id \in Ids, input \in BranchInputs :
       LET branch == Trim(input)
           fail(msg) ==
             /\ task' = [task EXCEPT ![t] =
                  [Begin(t, "add_worktree", parent_id, "done") EXCEPT
                     !.ret = msg, !.branch = input]]
             /\ UNCHANGED nextId
       IN IF branch = <<>> THEN fail("Branch name is required.")
          ELSE IF parent_id \notin DOMAIN workspaces
          THEN fail("parent workspace not found")
          ELSE IF IsWorktree(workspaces[parent_id])
          THEN fail("Cannot create a worktree from another worktree.")
          ELSE /\ HasFreePath(parent_id, sanitize_worktree_name(branch))
               /\ task' = [task EXCEPT ![t] =
                    [Begin(t, "add_worktree", parent_id, "wt_git") EXCEPT
                       !.branch = input,
                       !.parent = workspaces[parent_id],
                       !.entry = WorktreeEntry(nextId, parent_id, branch,
                          unique_worktree_path(parent_id,
                                               sanitize_worktree_name(branch)),
                          workspaces[parent_id].codex_bin)]]
               /\ nextId' = nextId + 1
  /\ cmds' = cmds + 1
  /\ UNCHANGED <<workspaces, persisted, sessions, live, dirs, nextPid, ioFailed>>
  /\ UNCHANGED <<remote, branches, repo>>

AddWorktreeGit(t) ==
  /\ task[t].pc = "wt_git"
  /\ \/ /\ task[t].entry.path \notin dirs
        /\ dirs' = dirs \cup {task[t].entry.path}
        /\ branches' = branches \cup {<<task[t].parent.id, task[t].entry.branch>>}
        /\ task' = [task EXCEPT ![t] = Goto(t, "wt_spawn")]
     \/ /\ task' = [task EXCEPT ![t] = Finish(t, "git failed")]
        /\ UNCHANGED <<dirs, branches>>
  /\ UNCHANGED <<workspaces, persisted, sessions, live, nextId, nextPid, cmds,
                 ioFailed>>
  /\ UNCHANGED <<remote, repo>>

AddWorktreeSpawn(t) ==
  /\ task[t].pc = "wt_spawn"
  /\ \/ \E pid \in Pids :
          /\ SpawnOk(pid)
          /\ task' = [task EXCEPT ![t] = [Goto(t, "wt_insert") EXCEPT !.sess = pid]]
     \/ /\ task' = [task EXCEPT ![t] = Finish(t, "spawn failed")]
        /\ UNCHANGED <<live, nextPid>>
  /\ UNCHANGED <<workspaces, persisted, sessions, dirs, nextId, cmds, ioFailed>>
  /\ UNCHANGED <<remote, branches, repo>>

AddWorktreeInsert(t) ==
  /\ RegistryFree
  /\ task[t].pc = "wt_insert"
  /\ workspaces' = Insert(workspaces, task[t].entry.id, task[t].entry)
  /\ \E ok \in BOOLEAN :
       /\ write_workspaces(workspaces', ok)
       /\ task' = [task EXCEPT ![t] =
            IF ok THEN Goto(t, "wt_sessions") ELSE Finish(t, "write failed")]
  /\ UNCHANGED <<sessions, live, dirs, nextId, nextPid, cmds>>
  /\ UNCHANGED <<remote, branches, repo>>

AddWorktreeSessions(t) ==
  /\ task[t].pc = "wt_sessions"
  /\ sessions' = Insert(sessions, task[t].entry.id, task[t].sess)
  /\ task' = [task EXCEPT ![t] = Finish(t, "Ok")]
  /\ UNCHANGED <<workspaces, persisted, live, dirs, nextId, nextPid, cmds, ioFailed>>
  /\ UNCHANGED <<remote, branches, repo>>

(* ---------------------------- remove_workspace ------------------------- *)
ChildrenOf(ws, id) == {ws[i] : i \in {j \in DOMAIN ws : ws[j].parent_id = id}}

StartRemoveWorkspace(t) ==
  /\ RegistryFree
  /\ LocalMode(t)
  /\ \E id \in Ids :
       LET fail(msg) == [Begin(t, "remove_workspace", id, "done") EXCEPT !.ret = msg]
       IN task' = [task EXCEPT ![t] =
            IF id \notin DOMAIN workspaces THEN fail("workspace not found")
            ELSE IF IsWorktree(workspaces[id])
            THEN fail("Use remove_worktree for worktree agents.")
            ELSE [Begin(t, "remove_workspace", id, "rm_child") EXCEPT
                    !.entry = workspaces[id],
                    !.children = ChildrenOf(workspaces, id),
                    !.todo = {e.id : e \in ChildrenOf(workspaces, id)}]]
  /\ cmds' = cmds + 1
  /\ UNCHANGED <<workspaces, persisted, sessions, live, dirs, nextId, nextPid,
                 ioFailed>>
  /\ UNCHANGED <<remote, branches, repo>>

\* One round of the loop over child_worktrees: the child's session is taken
\* out and killed, then its directory is removed through Git.  git is one
\* of: "ok", "missing" (is_missing_worktree_error, directory then removed by
\* hand, which may fail: "rmfail"), "error".
RemoveWorkspaceChild(t) ==
  /\ task[t].pc = "rm_child"
  /\ \E c \in {e \in task[t].children : e.id \in task[t].todo} :
       /\ sessions' = Remove(sessions, c.id)
       /\ Kill(IF c.id \in DOMAIN sessions THEN {sessions[c.id]} ELSE {})
       /\ IF c.path \in dirs
          THEN \E git \in {"ok", "missing", "rmfail", "error"} :
                 /\ dirs' = IF git \in {"ok", "missing"} THEN dirs \ {c.path} ELSE dirs
                 /\ task' = [task EXCEPT ![t] =
                      IF git = "rmfail"
                      THEN Finish(t, "Failed to remove worktree folder")
                      ELSE IF git = "error" THEN Finish(t, "git failed")
                      ELSE [task[t] EXCEPT !.todo = @ \ {c.id}]]
          ELSE /\ UNCHANGED dirs
               /\ task' = [task EXCEPT ![t] = [task[t] EXCEPT !.todo = @ \ {c.id}]]
  /\ UNCHANGED <<workspaces, persisted, nextId, nextPid, cmds, ioFailed>>
  /\ UNCHANGED <<remote, branches, repo>>

RemoveWorkspaceSession(t) ==
  /\ task[t].pc = "rm_child"
  /\ task[t].todo = {}
  /\ sessions' = Remove(sessions, task[t].id)
  /\ Kill(IF task[t].id \in DOMAIN sessions THEN {sessions[task[t].id]} ELSE {})
  /\ task' = [task EXCEPT ![t] = Goto(t, "rm_final")]
  /\ UNCHANGED <<workspaces, persisted, dirs, nextId, nextPid, cmds, ioFailed>>
  /\ UNCHANGED <<remote, branches, repo>>

RemoveWorkspaceFinal(t) ==
  /\ RegistryFree
  /\ task[t].pc = "rm_final"
  /\ workspaces' = RemoveAll(workspaces, {task[t].id} \cup {e.id : e \in task[t].children})
  /\ \E ok \in BOOLEAN :
       /\ write_workspaces(workspaces', ok)
       /\ task' = [task EXCEPT ![t] = Finish(t, IF ok THEN "Ok" ELSE "write failed")]
  /\ UNCHANGED <<sessions, live, dirs, nextId, nextPid, cmds>>
  /\ UNCHANGED <<remote, branches, repo>>

(* ----------------------------- remove_worktree ------------------------- *)
\* remove_worktree without the check of the entry's kind.
StartRemoveWorktreeAnyKind(t) ==
  /\ RegistryFree
  /\ LocalMode(t)
  /\ \E id \in Ids :
       LET fail(msg) == [Begin(t, "remove_worktree", id, "done") EXCEPT !.ret = msg]
       IN task' = [task EXCEPT ![t] =
            IF id \notin DOMAIN workspaces THEN fail("workspace not found")
            ELSE IF workspaces[id].parent_id \notin DOMAIN workspaces
            THEN fail("worktree parent not found")
            ELSE [Begin(t, "remove_worktree", id, "rw_git") EXCEPT
                    !.entry = workspaces[id]]]
  /\ cmds' = cmds + 1
  /\ UNCHANGED <<workspaces, persisted, sessions, live, dirs, nextId, nextPid,
                 ioFailed>>
  /\ UNCHANGED <<remote, branches, repo>>

StartRemoveWorktree(t) ==
  /\ RegistryFree
  /\ LocalMode(t)
  /\ \E id \in Ids :
       LET fail(msg) == [Begin(t, "remove_worktree", id, "done") EXCEPT !.ret = msg]
       IN task' = [task EXCEPT ![t] =
            IF id \notin DOMAIN workspaces THEN fail("workspace not found")
            ELSE IF ~IsWorktree(workspaces[id]) THEN fail("Not a worktree workspace.")
            ELSE IF workspaces[id].parent_id \notin DOMAIN workspaces
            THEN fail("worktree parent not found")
            ELSE [Begin(t, "remove_worktree", id, "rw_git") EXCEPT
                    !.entry = workspaces[id]]]
  /\ cmds' = cmds + 1
  /\ UNCHANGED <<workspaces, persisted, sessions, live, dirs, nextId, nextPid,
                 ioFailed>>
  /\ UNCHANGED <<remote, branches, repo>>

RemoveWorktreeGit(t) ==
  /\ task[t].pc = "rw_git"
  /\ sessions' = Remove(sessions, task[t].id)
  /\ Kill(IF task[t].id \in DOMAIN sessions THEN {sessions[task[t].id]} ELSE {})
  /\ IF task[t].entry.path \in dirs
     THEN \E git \in {"ok", "missing", "rmfail", "error"} :
            /\ dirs' = IF git \in {"ok", "missing"}
                       THEN dirs \ {task[t].entry.path} ELSE dirs
            /\ task' = [task EXCEPT ![t] =
                 IF git = "rmfail" THEN Finish(t, "Failed to remove worktree folder")
                 ELSE IF git = "error" THEN Finish(t, "git failed")
                 ELSE Goto(t, "rw_final")]
     ELSE /\ UNCHANGED dirs
          /\ task' = [task EXCEPT ![t] = Goto(t, "rw_final")]
  /\ UNCHANGED <<workspaces, persisted, nextId, nextPid, cmds, ioFailed>>
  /\ UNCHANGED <<remote, branches, repo>>

RemoveWorktreeFinal(t) ==
  /\ RegistryFree
  /\ task[t].pc = "rw_final"
  /\ workspaces' = Remove(workspaces, task[t].id)
  /\ \E ok \in BOOLEAN :
       /\ write_workspaces(workspaces', ok)
       /\ task' = [task EXCEPT ![t] = Finish(t, IF ok THEN "Ok" ELSE "write failed")]
  /\ UNCHANGED <<sessions, live, dirs, nextId, nextPid, cmds>>
  /\ UNCHANGED <<remote, branches, repo>>

(* ---------------------------- connect_workspace ------------------------ *)
\* connect_workspace that goes on to the spawn whether or not the id is
\* registered.
StartConnectWorkspaceAbsent(t) ==
  /\ RegistryFree
  /\ LocalMode(t)
  /\ \E id \in Ids :
       task' = [task EXCEPT ![t] =
         [Begin(t, "connect_workspace", id, "cn_spawn") EXCEPT
            !.entry = Get(workspaces, id),
            !.parent = Get(workspaces, Get(workspaces, id).parent_id)]]
  /\ cmds' = cmds + 1
  /\ UNCHANGED <<workspaces, persisted, sessions, live, dirs, nextId, nextPid,
                 ioFailed>>
  /\ UNCHANGED <<remote, branches, repo>>

\* connect_workspace that keeps the registry guard across the spawn.
StartConnectWorkspaceHolding(t) ==
  /\ RegistryFree
  /\ LocalMode(t)
  /\ \E id \in Ids :
       task' = [task EXCEPT ![t] =
         IF id \notin DOMAIN workspaces
         THEN [Begin(t, "connect_workspace", id, "done") EXCEPT
                 !.ret = "workspace not found"]
         ELSE [Begin(t, "connect_workspace", id, "cn_spawn") EXCEPT
                 !.guard = TRUE,
                 !.entry = workspaces[id],
                 !.parent = Get(workspaces, workspaces[id].parent_id)]]
  /\ cmds' = cmds + 1
  /\ UNCHANGED <<workspaces, persisted, sessions, live, dirs, nextId, nextPid,
                 ioFailed>>
  /\ UNCHANGED <<remote, branches, repo>>

StartConnectWorkspace(t) ==
  /\ RegistryFree
  /\ LocalMode(t)
  /\ \E id \in Ids :
       task' = [task EXCEPT ![t] =
         IF id \notin DOMAIN workspaces
         THEN [Begin(t, "connect_workspace", id, "done") EXCEPT
                 !.ret = "workspace not found"]
         ELSE [Begin(t, "connect_workspace", id, "cn_spawn") EXCEPT
                 !.entry = workspaces[id],
                 !.parent = Get(workspaces, workspaces[id].parent_id)]]
  /\ cmds' = cmds + 1
  /\ UNCHANGED <<workspaces, persisted, sessions, live, dirs, nextId, nextPid,
                 ioFailed>>
  /\ UNCHANGED <<remote, branches, repo>>

ConnectWorkspaceSpawn(t) ==
  /\ task[t].pc = "cn_spawn"
  /\ \/ \E pid \in Pids :
          /\ SpawnOk(pid)
          /\ task' = [task EXCEPT ![t] = [Goto(t, "cn_insert") EXCEPT !.sess = pid]]
     \/ /\ task' = [task EXCEPT ![t] = Finish(t, "spawn failed")]
        /\ UNCHANGED <<live, nextPid>>
  /\ UNCHANGED <<workspaces, persisted, sessions, dirs, nextId, cmds, ioFailed>>
  /\ UNCHANGED <<remote, branches, repo>>

ConnectWorkspaceInsert(t) ==
  /\ task[t].pc = "cn_insert"
  /\ sessions' = Insert(sessions, task[t].id, task[t].sess)
  /\ task' = [task EXCEPT ![t] = Finish(t, "Ok")]
  /\ UNCHANGED <<workspaces, persisted, live, dirs, nextId, nextPid, cmds, ioFailed>>
  /\ UNCHANGED <<remote, branches, repo>>

(* ------------------------ update_workspace_codex_bin ------------------- *)
StartUpdateCodexBin(t) ==
  /\ RegistryFree
  /\ LocalMode(t)
  /\ \E id \in Ids, bin \in BinVals :
       IF id \notin DOMAIN workspaces
       THEN /\ task' = [task EXCEPT ![t] =
                 [Begin(t, "update_workspace_codex_bin", id, "done") EXCEPT
                    !.ret = "workspace not found"]]
            /\ UNCHANGED workspaces
       ELSE /\ workspaces' = [workspaces EXCEPT ![id].codex_bin = bin]
            /\ task' = [task EXCEPT ![t] =
                 [Begin(t, "update_workspace_codex_bin", id, "cb_write") EXCEPT
                    !.entry = workspaces'[id], !.list = workspaces']]
  /\ cmds' = cmds + 1
  /\ UNCHANGED <<persisted, sessions, live, dirs, nextId, nextPid, ioFailed>>
  /\ UNCHANGED <<remote, branches, repo>>

\* The write step that reports the workspace as not connected.
UpdateCodexBinWriteDisconnected(t) ==
  /\ task[t].pc = "cb_write"
  /\ \E ok \in BOOLEAN :
       /\ write_workspaces(task[t].list, ok)
       /\ task' = [task EXCEPT ![t] =
            IF ok THEN Finish(t, "Ok")
                  ELSE Finish(t, "write failed")]
  /\ UNCHANGED <<workspaces, sessions, live, dirs, nextId, nextPid, cmds>>
  /\ UNCHANGED <<remote, branches, repo>>

\* write_workspaces outside the lock, then the connected flag is read from
\* the sessions map.
UpdateCodexBinWrite(t) ==
  /\ task[t].pc = "cb_write"
  /\ \E ok \in BOOLEAN :
       /\ write_workspaces(task[t].list, ok)
       /\ task' = [task EXCEPT ![t] =
            IF ok THEN [Finish(t, "Ok") EXCEPT !.flag = (task[t].id \in DOMAIN sessions)]
                  ELSE Finish(t, "write failed")]
  /\ UNCHANGED <<workspaces, sessions, live, dirs, nextId, nextPid, cmds>>
  /\ UNCHANGED <<remote, branches, repo>>

(* ------------------------ update_workspace_settings -------------------- *)
\* The first critical section with the previous entry taken from the stored
\* list instead of the registry.
StartUpdateSettingsStale(t) ==
  /\ RegistryFree
  /\ LocalMode(t)
  /\ \E id \in Ids, settings \in SettingsVals :
       IF id \notin DOMAIN workspaces
       THEN /\ task' = [task EXCEPT ![t] =
                 [Begin(t, "update_workspace_settings", id, "done") EXCEPT
                    !.ret = "workspace not found"]]
            /\ UNCHANGED workspaces
       ELSE LET previous_entry == IF id \in DOMAIN persisted THEN persisted[id]
                                  ELSE workspaces[id]
                changed ==
                  \/ previous_entry.settings.codex_home # settings.codex_home
                  \/ previous_entry.settings.codex_args # settings.codex_args
                connected == id \in DOMAIN sessions
            IN /\ workspaces' = apply_workspace_settings_update(workspaces, id, settings)
               /\ task' = [task EXCEPT ![t] =
                    [Begin(t, "update_workspace_settings", id,
                           IF connected /\ changed THEN "us_spawn"
                           ELSE IF changed THEN "us_children" ELSE "us_list") EXCEPT
                       !.prev = previous_entry,
                       !.entry = workspaces'[id],
                       !.parent = Get(workspaces', workspaces'[id].parent_id),
                       !.children = ChildrenOf(workspaces', id),
                       !.todo = IF changed
                                THEN {e.id : e \in ChildrenOf(workspaces', id)}
                                ELSE {},
                       !.flag = connected]]
  /\ cmds' = cmds + 1
  /\ UNCHANGED <<persisted, sessions, live, dirs, nextId, nextPid, ioFailed>>
  /\ UNCHANGED <<remote, branches, repo>>

\* The first critical section: previous entry, update, parent and children
\* are read under one registry lock; then the raw home / args comparison and
\* the connected check.
StartUpdateSettings(t) ==
  /\ RegistryFree
  /\ LocalMode(t)
  /\ \E id \in Ids, settings \in SettingsVals :
       IF id \notin DOMAIN workspaces
       THEN /\ task' = [task EXCEPT ![t] =
                 [Begin(t, "update_workspace_settings", id, "done") EXCEPT
                    !.ret = "workspace not found"]]
            /\ UNCHANGED workspaces
       ELSE LET previous_entry == workspaces[id]
                changed ==
                  \/ previous_entry.settings.codex_home # settings.codex_home
                  \/ previous_entry.settings.codex_args # settings.codex_args
                connected == id \in DOMAIN sessions
            IN /\ workspaces' = apply_workspace_settings_update(workspaces, id, settings)
               /\ task' = [task EXCEPT ![t] =
                    [Begin(t, "update_workspace_settings", id,
                           IF connected /\ changed THEN "us_spawn"
                           ELSE IF changed THEN "us_children" ELSE "us_list") EXCEPT
                       !.prev = previous_entry,
                       !.entry = workspaces'[id],
                       !.parent = Get(workspaces', workspaces'[id].parent_id),
                       !.children = ChildrenOf(workspaces', id),
                       !.todo = IF changed
                                THEN {e.id : e \in ChildrenOf(workspaces', id)}
                                ELSE {},
                       !.flag = connected]]
  /\ cmds' = cmds + 1
  /\ UNCHANGED <<persisted, sessions, live, dirs, nextId, nextPid, ioFailed>>
  /\ UNCHANGED <<remote, branches, repo>>

\* Spawn of the entry's own replacement session; on failure the previous
\* entry is put back into the registry and the command returns the error.
UpdateSettingsSpawn(t) ==
  /\ task[t].pc = "us_spawn"
  /\ \/ \E pid \in Pids :
          /\ SpawnOk(pid)
          /\ task' = [task EXCEPT ![t] = [Goto(t, "us_install") EXCEPT !.sess = pid]]
          /\ UNCHANGED workspaces
     \/ /\ workspaces' = Insert(workspaces, task[t].prev.id, task[t].prev)
        /\ task' = [task EXCEPT ![t] = Finish(t, "spawn failed")]
        /\ UNCHANGED <<live, nextPid>>
  /\ UNCHANGED <<persisted, sessions, dirs, nextId, cmds, ioFailed>>
  /\ UNCHANGED <<remote, branches, repo>>

\* sessions.insert(id, new_session) returns the evicted session, which is
\* killed afterwards.
InstallSession(id, pid) ==
  /\ sessions' = Insert(sessions, id, pid)
  /\ Kill(IF id \in DOMAIN sessions THEN {sessions[id]} ELSE {})

UpdateSettingsInstall(t) ==
  /\ task[t].pc = "us_install"
  /\ InstallSession(task[t].id, task[t].sess)
  /\ task' = [task EXCEPT ![t] = [Goto(t, "us_children") EXCEPT !.sess = 0]]
  /\ UNCHANGED <<workspaces, persisted, dirs, nextId, nextPid, cmds, ioFailed>>
  /\ UNCHANGED <<remote, branches, repo>>

\* The child check without the comparison of the effective configuration.
ChildNeedsRespawnRaw(child, previous_entry, entry_snapshot) ==
  child.id \in DOMAIN sessions

\* Does the child need a new session: it is connected now and its effective
\* home or args differ between the previous and the updated parent entry.
ChildNeedsRespawn(child, previous_entry, entry_snapshot) ==
  /\ child.id \in DOMAIN sessions
  /\ ~ ( /\ resolve_workspace_codex_home(child, previous_entry)
              = resolve_workspace_codex_home(child, entry_snapshot)
         /\ resolve_workspace_codex_args(child, previous_entry)
              = resolve_workspace_codex_args(child, entry_snapshot) )

UpdateSettingsChildCheck(t) ==
  /\ task[t].pc = "us_children"
  /\ \E c \in {e \in task[t].children : e.id \in task[t].todo} :
       task' = [task EXCEPT ![t] =
         IF ChildNeedsRespawn(c, task[t].prev, task[t].entry)
         THEN [task[t] EXCEPT !.pc = "us_child_spawn", !.child = c]
         ELSE [task[t] EXCEPT !.todo = @ \ {c.id}]]
  /\ UNCHANGED <<workspaces, persisted, sessions, live, dirs, nextId, nextPid,
                 cmds, ioFailed>>
  /\ UNCHANGED <<remote, branches, repo>>

\* The child respawn whose failure ends the command with the error.
UpdateSettingsChildSpawnFatal(t) ==
  /\ task[t].pc = "us_child_spawn"
  /\ \/ \E pid \in Pids :
          /\ SpawnOk(pid)
          /\ task' = [task EXCEPT ![t] =
               [Goto(t, "us_child_install") EXCEPT !.sess = pid]]
     \/ /\ task' = [task EXCEPT ![t] = Finish(t, "spawn failed")]
        /\ UNCHANGED <<live, nextPid>>
  /\ UNCHANGED <<workspaces, persisted, sessions, dirs, nextId, cmds, ioFailed>>
  /\ UNCHANGED <<remote, branches, repo>>

\* Spawn of a child's replacement session; a failure is logged and the loop
\* goes on with the next child.
UpdateSettingsChildSpawn(t) ==
  /\ task[t].pc = "us_child_spawn"
  /\ \/ \E pid \in Pids :
          /\ SpawnOk(pid)
          /\ task' = [task EXCEPT ![t] =
               [Goto(t, "us_child_install") EXCEPT !.sess = pid]]
     \/ /\ task' = [task EXCEPT ![t] =
             [task[t] EXCEPT !.pc = "us_children", !.child = NoEntry,
                             !.todo = @ \ {task[t].child.id}]]
        /\ UNCHANGED <<live, nextPid>>
  /\ UNCHANGED <<workspaces, persisted, sessions, dirs, nextId, cmds, ioFailed>>
  /\ UNCHANGED <<remote, branches, repo>>

UpdateSettingsChildInstall(t) ==
  /\ task[t].pc = "us_child_install"
  /\ InstallSession(task[t].child.id, task[t].sess)
  /\ task' = [task EXCEPT ![t] =
       [task[t] EXCEPT !.pc = "us_children", !.child = NoEntry, !.sess = 0,
                       !.todo = @ \ {task[t].child.id}]]
  /\ UNCHANGED <<workspaces, persisted, dirs, nextId, nextPid, cmds, ioFailed>>
  /\ UNCHANGED <<remote, branches, repo>>

\* The list is collected under the registry lock ...
UpdateSettingsList(t) ==
  /\ RegistryFree
  /\ \/ task[t].pc = "us_list"
     \/ task[t].pc = "us_children" /\ task[t].todo = {}
  /\ task' = [task EXCEPT ![t] = [Goto(t, "us_write") EXCEPT !.list = workspaces]]
  /\ UNCHANGED <<workspaces, persisted, sessions, live, dirs, nextId, nextPid,
                 cmds, ioFailed>>
  /\ UNCHANGED <<remote, branches, repo>>

\* ... and written after the lock is released.
UpdateSettingsWrite(t) ==
  /\ task[t].pc = "us_write"
  /\ \E ok \in BOOLEAN :
       /\ write_workspaces(task[t].list, ok)
       /\ task' = [task EXCEPT ![t] =
            [Finish(t, IF ok THEN "Ok" ELSE "write failed") EXCEPT
               !.flag = task[t].flag]]
  /\ UNCHANGED <<workspaces, sessions, live, dirs, nextId, nextPid, cmds>>
  /\ UNCHANGED <<remote, branches, repo>>

(* ----------------------------- rename_worktree ------------------------- *)
\* super::git::unique_branch_name: the requested name, or the name with a
\* numeric suffix when Git reports a collision.
Suffixed(b) == b \o <<"2">>

\* super::worktree::unique_worktree_path_for_rename: like
\* unique_worktree_path, but the current path counts as free.
unique_worktree_path_for_rename(root, name, current) ==
  LET free == {k \in 1..MaxSuffix :
                 <<root, name, k>> \notin dirs \/ <<root, name, k>> = current}
  IN <<root, name, CHOOSE k \in free : \A j \in free : k <= j>>

HasFreePathForRename(root, name, current) ==
  \E k \in 1..MaxSuffix : <<root, name, k>> \notin dirs \/ <<root, name, k>> = current

\* rename_worktree without the comparison with the current branch.
StartRenameWorktreeUncompared(t) ==
  /\ RegistryFree
  /\ LocalMode(t)
  /\ \E id \in Ids, input \in BranchInputs :
       LET trimmed == Trim(input)
           fail(msg) == [Begin(t, "rename_worktree", id, "done") EXCEPT
                          !.ret = msg, !.branch = input]
       IN task' = [task EXCEPT ![t] =
            IF trimmed = <<>> THEN fail("Branch name is required.")
            ELSE IF id \notin DOMAIN workspaces THEN fail("workspace not found")
            ELSE IF ~IsWorktree(workspaces[id]) THEN fail("Not a worktree workspace.")
            ELSE IF workspaces[id].parent_id \notin DOMAIN workspaces
            THEN fail("worktree parent not found")
            ELSE [Begin(t, "rename_worktree", id, "rn_git") EXCEPT
                    !.branch = input,
                    !.entry = workspaces[id],
                    !.parent = workspaces[workspaces[id].parent_id],
                    !.child = [NoEntry EXCEPT !.branch = trimmed]]]
  /\ cmds' = cmds + 1
  /\ UNCHANGED <<workspaces, persisted, sessions, live, dirs, nextId, nextPid,
                 ioFailed>>
  /\ UNCHANGED <<remote, branches, repo>>

StartRenameWorktree(t) ==
  /\ RegistryFree
  /\ LocalMode(t)
  /\ \E id \in Ids, input \in BranchInputs :
       LET trimmed == Trim(input)
           fail(msg) == [Begin(t, "rename_worktree", id, "done") EXCEPT
                          !.ret = msg, !.branch = input]
       IN task' = [task EXCEPT ![t] =
            IF trimmed = <<>> THEN fail("Branch name is required.")
            ELSE IF id \notin DOMAIN workspaces THEN fail("workspace not found")
            ELSE IF ~IsWorktree(workspaces[id]) THEN fail("Not a worktree workspace.")
            ELSE IF workspaces[id].parent_id \notin DOMAIN workspaces
            THEN fail("worktree parent not found")
            ELSE IF workspaces[id].branch = trimmed
            THEN fail("Branch name is unchanged.")
            ELSE [Begin(t, "rename_worktree", id, "rn_git") EXCEPT
                    !.branch = input,
                    !.entry = workspaces[id],
                    !.parent = workspaces[workspaces[id].parent_id],
                    !.child = [NoEntry EXCEPT !.branch = trimmed]]]
  /\ cmds' = cmds + 1
  /\ UNCHANGED <<workspaces, persisted, sessions, live, dirs, nextId, nextPid,
                 ioFailed>>
  /\ UNCHANGED <<remote, branches, repo>>

\* git branch -m old new in the repository of parent p: it renames the
\* branch when old exists and new does not, and fails otherwise.
CanRenameBranch(p, old, new) == <<p, old>> \in branches /\ <<p, new>> \notin branches
RenameBranch(p, old, new) == (branches \ {<<p, old>>}) \cup {<<p, new>>}

\* unique_branch_name, then git branch -m old final.  The final branch is
\* kept in child.
RenameWorktreeGit(t) ==
  /\ task[t].pc = "rn_git"
  /\ LET entry == task[t].entry
         p == task[t].parent.id
         trimmed == task[t].child.branch
     IN \E final_branch \in (IF <<p, trimmed>> \in branches THEN {}
                               ELSE {trimmed}) \cup {Suffixed(trimmed)},
           branchOk \in BOOLEAN :
          IF final_branch = entry.branch
          THEN /\ task' = [task EXCEPT ![t] = Finish(t, "Branch name is unchanged.")]
               /\ UNCHANGED branches
          ELSE IF ~branchOk \/ ~CanRenameBranch(p, entry.branch, final_branch)
          THEN /\ task' = [task EXCEPT ![t] = Finish(t, "git failed")]
               /\ UNCHANGED branches
          ELSE /\ branches' = RenameBranch(p, entry.branch, final_branch)
               /\ task' = [task EXCEPT ![t] =
                    [Goto(t, "rn_move") EXCEPT
                       !.child = [NoEntry EXCEPT !.branch = final_branch]]]
  /\ UNCHANGED <<workspaces, persisted, sessions, live, dirs, nextId, nextPid,
                 cmds, ioFailed>>
  /\ UNCHANGED <<remote, repo>>

\* The move step without the inverse branch rename.
RenameWorktreeMoveNoUndo(t) ==
  /\ task[t].pc = "rn_move"
  /\ LET entry == task[t].entry
         p == task[t].parent.id
         final_branch == task[t].child.branch
         name == sanitize_worktree_name(final_branch)
     IN IF ~HasFreePathForRename(p, name, entry.path)
        THEN /\ task' = [task EXCEPT ![t] = Finish(t, "no worktree path")]
             /\ UNCHANGED <<dirs, branches>>
        ELSE \E moveOk \in BOOLEAN :
          LET next_path == unique_worktree_path_for_rename(p, name, entry.path)
          IN IF next_path # entry.path
                  /\ (~moveOk \/ entry.path \notin dirs \/ next_path \in dirs)
             THEN /\ UNCHANGED branches
                  /\ task' = [task EXCEPT ![t] = Finish(t, "worktree move failed")]
                  /\ UNCHANGED dirs
             ELSE /\ dirs' = (dirs \ {entry.path}) \cup {next_path}
                  /\ task' = [task EXCEPT ![t] =
                       [Goto(t, "rn_mutate") EXCEPT
                          !.child = [NoEntry EXCEPT !.branch = final_branch,
                                                    !.path = next_path]]]
                  /\ UNCHANGED branches
  /\ UNCHANGED <<workspaces, persisted, sessions, live, nextId, nextPid, cmds,
                 ioFailed>>
  /\ UNCHANGED <<remote, repo>>

\* unique_worktree_path_for_rename, then git worktree move when the path
\* changes; when the move fails, git branch -m final old is issued, its
\* result is discarded and the move's error is returned.
RenameWorktreeMove(t) ==
  /\ task[t].pc = "rn_move"
  /\ LET entry == task[t].entry
         p == task[t].parent.id
         final_branch == task[t].child.branch
         name == sanitize_worktree_name(final_branch)
     IN IF ~HasFreePathForRename(p, name, entry.path)
        THEN /\ task' = [task EXCEPT ![t] = Finish(t, "no worktree path")]
             /\ UNCHANGED <<dirs, branches>>
        ELSE \E moveOk \in BOOLEAN :
          LET next_path == unique_worktree_path_for_rename(p, name, entry.path)
          IN IF next_path # entry.path
                  /\ (~moveOk \/ entry.path \notin dirs \/ next_path \in dirs)
             THEN /\ branches' =
                       IF CanRenameBranch(p, final_branch, entry.branch)
                       THEN RenameBranch(p, final_branch, entry.branch)
                       ELSE branches
                  /\ task' = [task EXCEPT ![t] = Finish(t, "worktree move failed")]
                  /\ UNCHANGED dirs
             ELSE /\ dirs' = (dirs \ {entry.path}) \cup {next_path}
                  /\ task' = [task EXCEPT ![t] =
                       [Goto(t, "rn_mutate") EXCEPT
                          !.child = [NoEntry EXCEPT !.branch = final_branch,
                                                    !.path = next_path]]]
                  /\ UNCHANGED branches
  /\ UNCHANGED <<workspaces, persisted, sessions, live, nextId, nextPid, cmds,
                 ioFailed>>
  /\ UNCHANGED <<remote, repo>>

\* The mutation of rename_worktree that also drops the entry's parent_id.
RenameWorktreeMutateUnparented(t) ==
  /\ RegistryFree
  /\ task[t].pc = "rn_mutate"
  /\ IF task[t].id \notin DOMAIN workspaces
     THEN /\ task' = [task EXCEPT ![t] = Finish(t, "workspace not found")]
          /\ UNCHANGED workspaces
     ELSE /\ workspaces' = [workspaces EXCEPT
                              ![task[t].id].parent_id = 0,
                              ![task[t].id].branch = task[t].child.branch,
                              ![task[t].id].path = task[t].child.path]
          /\ task' = [task EXCEPT ![t] =
               [Goto(t, "rn_write") EXCEPT
                  !.entry = workspaces'[task[t].id], !.child = NoEntry,
                  !.list = workspaces']]
  /\ UNCHANGED <<persisted, sessions, live, dirs, nextId, nextPid, cmds, ioFailed>>
  /\ UNCHANGED <<remote, branches, repo>>

RenameWorktreeMutate(t) ==
  /\ RegistryFree
  /\ task[t].pc = "rn_mutate"
  /\ IF task[t].id \notin DOMAIN workspaces
     THEN /\ task' = [task EXCEPT ![t] = Finish(t, "workspace not found")]
          /\ UNCHANGED workspaces
     ELSE /\ workspaces' = [workspaces EXCEPT
                              ![task[t].id].branch = task[t].child.branch,
                              ![task[t].id].path = task[t].child.path]
          /\ task' = [task EXCEPT ![t] =
               [Goto(t, "rn_write") EXCEPT
                  !.entry = workspaces'[task[t].id], !.child = NoEntry,
                  !.list = workspaces']]
  /\ UNCHANGED <<persisted, sessions, live, dirs, nextId, nextPid, cmds, ioFailed>>
  /\ UNCHANGED <<remote, branches, repo>>

\* write_workspaces outside the lock, then the was_connected check.
RenameWorktreeWrite(t) ==
  /\ task[t].pc = "rn_write"
  /\ \E ok \in BOOLEAN :
       /\ write_workspaces(task[t].list, ok)
       /\ task' = [task EXCEPT ![t] =
            IF ~ok THEN Finish(t, "write failed")
            ELSE IF task[t].id \in DOMAIN sessions
            THEN [Goto(t, "rn_remove") EXCEPT !.list = EmptyMap]
            ELSE Finish(t, "Ok")]
  /\ UNCHANGED <<workspaces, sessions, live, dirs, nextId, nextPid, cmds>>
  /\ UNCHANGED <<remote, branches, repo>>

\* The old session is taken out of the map and killed before the spawn.
RenameWorktreeRemove(t) ==
  /\ task[t].pc = "rn_remove"
  /\ sessions' = Remove(sessions, task[t].id)
  /\ Kill(IF task[t].id \in DOMAIN sessions THEN {sessions[task[t].id]} ELSE {})
  /\ task' = [task EXCEPT ![t] = Goto(t, "rn_spawn")]
  /\ UNCHANGED <<workspaces, persisted, dirs, nextId, nextPid, cmds, ioFailed>>
  /\ UNCHANGED <<remote, branches, repo>>

\* The respawn that reports was_connected instead of reading the sessions map.
RenameWorktreeSpawnStale(t) ==
  /\ task[t].pc = "rn_spawn"
  /\ \/ \E pid \in Pids :
          /\ SpawnOk(pid)
          /\ task' = [task EXCEPT ![t] = [Goto(t, "rn_install") EXCEPT !.sess = pid]]
     \/ /\ task' = [task EXCEPT ![t] =
             [Finish(t, "Ok") EXCEPT !.flag = TRUE]]
        /\ UNCHANGED <<live, nextPid>>
  /\ UNCHANGED <<workspaces, persisted, sessions, dirs, nextId, cmds, ioFailed>>
  /\ UNCHANGED <<remote, branches, repo>>

\* The respawn after the rename; a failure is logged and the command goes on
\* to read the connected flag from the sessions map.
RenameWorktreeSpawn(t) ==
  /\ task[t].pc = "rn_spawn"
  /\ \/ \E pid \in Pids :
          /\ SpawnOk(pid)
          /\ task' = [task EXCEPT ![t] = [Goto(t, "rn_install") EXCEPT !.sess = pid]]
     \/ /\ task' = [task EXCEPT ![t] =
             [Finish(t, "Ok") EXCEPT !.flag = (task[t].id \in DOMAIN sessions)]]
        /\ UNCHANGED <<live, nextPid>>
  /\ UNCHANGED <<workspaces, persisted, sessions, dirs, nextId, cmds, ioFailed>>
  /\ UNCHANGED <<remote, branches, repo>>

RenameWorktreeInstall(t) ==
  /\ task[t].pc = "rn_install"
  /\ sessions' = Insert(sessions, task[t].id, task[t].sess)
  /\ task' = [task EXCEPT ![t] = [Finish(t, "Ok") EXCEPT !.flag = TRUE]]
  /\ UNCHANGED <<workspaces, persisted, live, dirs, nextId, nextPid, cmds, ioFailed>>
  /\ UNCHANGED <<remote, branches, repo>>

(* -------------------------- apply_worktree_changes --------------------- *)
\* Texts are sequences of the fragments the code looks for; " " is white
\* space, which trim() removes at both ends.
GitTexts ==
  {<<>>, <<" ">>, <<"error">>, <<"Applied patch to">>,
   <<"Applied patch to", "with conflicts">>}
ApplyOutputs == [success : BOOLEAN, stdout : GitTexts, stderr : GitTexts]
ChangeKinds == {"staged", "unstaged", "untracked"}

\* str::contains for a fragment.
Contains(text, fragment) == \E i \in 1..Len(text) : text[i] = fragment

DirtyParentError ==
  "Your current branch has uncommitted changes. Please commit, stash, or discard them before applying worktree changes."
ConflictError ==
  "Applied with conflicts. Resolve conflicts in the parent repo before retrying."
PartialError ==
  "Patch applied partially. Resolve changes in the parent repo before retrying."

\* The classification made on the concatenation of stdout and stderr.
apply_result_combined(out) ==
  LET detail == Trim(out.stdout \o out.stderr)
  IN IF out.success THEN "Ok"
     ELSE IF Contains(detail, "Applied patch to")
     THEN IF Contains(detail, "with conflicts") THEN ConflictError
          ELSE PartialError
     ELSE "Err(detail)"

\* The result of the command from the exit status and the output of
\* git apply: the text inspected is stderr, or stdout when stderr is blank.
apply_result(out) ==
  LET detail == IF Trim(out.stderr) = <<>> THEN Trim(out.stdout)
                ELSE Trim(out.stderr)
  IN IF out.success THEN "Ok"
     ELSE IF detail = <<>> THEN "Git apply failed."
     ELSE IF Contains(detail, "Applied patch to")
     THEN IF Contains(detail, "with conflicts") THEN ConflictError
          ELSE PartialError
     ELSE "Err(detail)"

\* The entry and its parent are read under the registry lock; the command
\* has no is_remote_mode check.
StartApplyWorktreeChanges(t) ==
  /\ RegistryFree
  /\ CanStart(t)
  /\ \E workspace_id \in Ids :
       LET fail(msg) ==
             [Begin(t, "apply_worktree_changes", workspace_id, "done") EXCEPT
                !.ret = msg]
       IN task' = [task EXCEPT ![t] =
            IF workspace_id \notin DOMAIN workspaces THEN fail("workspace not found")
            ELSE IF ~IsWorktree(workspaces[workspace_id])
            THEN fail("Not a worktree workspace.")
            ELSE IF workspaces[workspace_id].parent_id \notin DOMAIN workspaces
            THEN fail("worktree parent not found")
            ELSE [Begin(t, "apply_worktree_changes", workspace_id, "ap_status") EXCEPT
                    !.entry = workspaces[workspace_id],
                    !.parent = workspaces[workspaces[workspace_id].parent_id]]]
  /\ cmds' = cmds + 1
  /\ UNCHANGED <<workspaces, persisted, sessions, live, dirs, nextId, nextPid,
                 ioFailed, remote, branches, repo>>

\* The status step without the check of the porcelain output.
ApplyStatusUnchecked(t) ==
  /\ task[t].pc = "ap_status"
  /\ \E gitOk \in BOOLEAN :
       task' = [task EXCEPT ![t] =
         IF ~gitOk THEN Finish(t, "git failed")
         ELSE [Goto(t, "ap_diff") EXCEPT !.log = Append(@, "status")]]
  /\ UNCHANGED <<workspaces, persisted, sessions, live, dirs, nextId, nextPid,
                 cmds, ioFailed, remote, branches, repo>>

\* resolve_git_root and git status --porcelain in the parent.
ApplyStatus(t) ==
  /\ task[t].pc = "ap_status"
  /\ \E gitOk \in BOOLEAN :
       task' = [task EXCEPT ![t] =
         IF ~gitOk THEN Finish(t, "git failed")
         ELSE IF repo.parentDirty THEN Finish(t, DirtyParentError)
         ELSE [Goto(t, "ap_diff") EXCEPT !.log = Append(@, "status")]]
  /\ UNCHANGED <<workspaces, persisted, sessions, live, dirs, nextId, nextPid,
                 cmds, ioFailed, remote, branches, repo>>

\* The diff step without the check for a blank patch.
ApplyDiffUnchecked(t) ==
  /\ task[t].pc = "ap_diff"
  /\ \E gitOk \in BOOLEAN :
       task' = [task EXCEPT ![t] =
         IF ~gitOk THEN Finish(t, "git failed")
         ELSE [Goto(t, "ap_apply") EXCEPT !.log = Append(@, "diff")]]
  /\ UNCHANGED <<workspaces, persisted, sessions, live, dirs, nextId, nextPid,
                 cmds, ioFailed, remote, branches, repo>>

\* The patch is collected from the worktree: staged diff, unstaged diff and
\* one diff per untracked file; a blank patch ends the command.
ApplyDiff(t) ==
  /\ task[t].pc = "ap_diff"
  /\ \E gitOk \in BOOLEAN :
       task' = [task EXCEPT ![t] =
         IF ~gitOk THEN Finish(t, "git failed")
         ELSE IF repo.changes = {} THEN Finish(t, "No changes to apply.")
         ELSE [Goto(t, "ap_apply") EXCEPT !.log = Append(@, "diff")]]
  /\ UNCHANGED <<workspaces, persisted, sessions, live, dirs, nextId, nextPid,
                 cmds, ioFailed, remote, branches, repo>>

\* git apply --3way in the parent: a run that exits with success, or that
\* reports an applied patch, has written to the parent's working tree.
ApplyGit(t) ==
  /\ task[t].pc = "ap_apply"
  /\ \E out \in ApplyOutputs :
       /\ task' = [task EXCEPT ![t] =
            [Finish(t, apply_result(out)) EXCEPT
               !.out = out, !.log = Append(task[t].log, "apply")]]
       /\ \E touched \in BOOLEAN :
            /\ (out.success \/ Contains(out.stdout \o out.stderr, "Applied patch to"))
                 => touched
            /\ repo' = [repo EXCEPT !.parentDirty = @ \/ touched]
  /\ UNCHANGED <<workspaces, persisted, sessions, live, dirs, nextId, nextPid,
                 cmds, ioFailed, remote, branches>>

ApplyStep(t) ==
  \/ StartApplyWorktreeChanges(t) \/ ApplyStatus(t) \/ ApplyDiff(t) \/ ApplyGit(t)

\* The registry with worktree 2 and its parent, or with worktree 2 alone;
\* any state of the parent's working tree and of the worktree's changes.
InitApply ==
  /\ workspaces \in {LoadedRegistry, Remove(LoadedRegistry, 1)}
  /\ persisted = workspaces
  /\ sessions = EmptyMap
  /\ live = {}
  /\ dirs = {<<1, <<"a">>, 1>>}
  /\ nextId = 3
  /\ nextPid = 3
  /\ cmds = 0
  /\ ioFailed = FALSE
  /\ remote \in BOOLEAN
  /\ branches = LoadedBranches
  /\ \E d \in BOOLEAN, c \in SUBSET ChangeKinds :
       repo = [QuietRepo EXCEPT !.parentDirty = d, !.changes = c]
  /\ task = [t \in Tasks |-> IdleTask]

NextApply == \E t \in Tasks : ApplyStep(t)

SpecApply == InitApply /\ [][NextApply]_vars

(* -------------------------- rename_worktree_upstream ------------------- *)
\* Names of the remotes a repository may have configured.
RemoteNames == {"origin", "fork"}

\* super::git::git_branch_exists
git_branch_exists(root, branch) == <<root, branch>> \in branches

\* super::git::git_find_remote_for_branch: the remote the branch tracks, or
\* "" when it tracks none.
git_find_remote_for_branch(root, branch) ==
  IF \E r \in RemoteNames : <<branch, r>> \in repo.tracked
  THEN CHOOSE r \in RemoteNames : <<branch, r>> \in repo.tracked
  ELSE ""

\* super::git::git_remote_exists
git_remote_exists(root, name) ==
  \/ name = "origin" /\ repo.hasOrigin
  \/ \E b \in BranchInputs : <<b, name>> \in repo.tracked

\* super::git::git_remote_branch_exists
git_remote_branch_exists(root, name, branch) == <<name, branch>> \in repo.remoteRefs

\* One Git command of the command's log, with its outcome.
GitRun(cmd, ok) == [cmd |-> cmd, ok |-> ok]

\* The arguments are trimmed and compared, then the entry and its parent are
\* read under the registry lock.
StartRenameWorktreeUpstream(t) ==
  /\ RegistryFree
  /\ LocalMode(t)
  /\ \E id \in Ids, old_input \in BranchInputs, new_input \in BranchInputs :
       LET old_branch == Trim(old_input)
           new_branch == Trim(new_input)
           fail(msg) ==
             [Begin(t, "rename_worktree_upstream", id, "done") EXCEPT
                !.ret = msg, !.old_branch = old_branch, !.new_branch = new_branch]
       IN task' = [task EXCEPT ![t] =
            IF old_branch = <<>> \/ new_branch = <<>>
            THEN fail("Branch name is required.")
            ELSE IF old_branch = new_branch THEN fail("Branch name is unchanged.")
            ELSE IF id \notin DOMAIN workspaces THEN fail("workspace not found")
            ELSE IF ~IsWorktree(workspaces[id]) THEN fail("Not a worktree workspace.")
            ELSE IF workspaces[id].parent_id \notin DOMAIN workspaces
            THEN fail("worktree parent not found")
            ELSE [Begin(t, "rename_worktree_upstream", id, "ru_local") EXCEPT
                    !.entry = workspaces[id],
                    !.parent = workspaces[workspaces[id].parent_id],
                    !.old_branch = old_branch, !.new_branch = new_branch]]
  /\ cmds' = cmds + 1
  /\ UNCHANGED <<workspaces, persisted, sessions, live, dirs, nextId, nextPid,
                 ioFailed, remote, branches, repo>>

\* A return that keeps the command's branch names and its log of Git runs.
FinishUpstream(t, ret) ==
  [Finish(t, ret) EXCEPT
     !.old_branch = task[t].old_branch, !.new_branch = task[t].new_branch,
     !.remote_name = task[t].remote_name, !.flag = task[t].flag,
     !.log = task[t].log]

\* resolve_git_root, then the new branch must exist locally.
RenameUpstreamLocal(t) ==
  /\ task[t].pc = "ru_local"
  /\ \E gitOk \in BOOLEAN :
       task' = [task EXCEPT ![t] =
         IF ~gitOk THEN FinishUpstream(t, "git failed")
         ELSE IF ~git_branch_exists(task[t].parent.id, task[t].new_branch)
         THEN FinishUpstream(t, "Local branch not found.")
         ELSE Goto(t, "ru_remote")]
  /\ UNCHANGED <<workspaces, persisted, sessions, live, dirs, nextId, nextPid,
                 cmds, ioFailed, remote, branches, repo>>

\* The remote of the old branch, or origin when the old branch has none and
\* origin is configured.
RenameUpstreamRemote(t) ==
  /\ task[t].pc = "ru_remote"
  /\ \E gitOk \in BOOLEAN :
       LET remote_for_old ==
             git_find_remote_for_branch(task[t].parent.id, task[t].old_branch)
       IN task' = [task EXCEPT ![t] =
            IF ~gitOk THEN FinishUpstream(t, "git failed")
            ELSE IF remote_for_old # ""
            THEN [Goto(t, "ru_exists") EXCEPT
                    !.remote_name = remote_for_old, !.flag = TRUE]
            ELSE IF git_remote_exists(task[t].parent.id, "origin")
            THEN [Goto(t, "ru_exists") EXCEPT
                    !.remote_name = "origin", !.flag = FALSE]
            ELSE FinishUpstream(t, "No git remote configured for this worktree.")]
  /\ UNCHANGED <<workspaces, persisted, sessions, live, dirs, nextId, nextPid,
                 cmds, ioFailed, remote, branches, repo>>

\* The remote must not have a branch with the new name yet.
RenameUpstreamExists(t) ==
  /\ task[t].pc = "ru_exists"
  /\ \E gitOk \in BOOLEAN :
       task' = [task EXCEPT ![t] =
         IF ~gitOk THEN FinishUpstream(t, "git failed")
         ELSE IF git_remote_branch_exists(task[t].parent.id, task[t].remote_name,
                                          task[t].new_branch)
         THEN FinishUpstream(t, "Remote branch already exists.")
         ELSE Goto(t, "ru_push")]
  /\ UNCHANGED <<workspaces, persisted, sessions, live, dirs, nextId, nextPid,
                 cmds, ioFailed, remote, branches, repo>>

\* The push step that goes on to the next Git command whatever its outcome.
RenameUpstreamPushUnchecked(t) ==
  /\ task[t].pc = "ru_push"
  /\ \E ok \in (IF git_branch_exists(task[t].parent.id, task[t].new_branch)
               THEN BOOLEAN ELSE {FALSE}) :
       /\ task' = [task EXCEPT ![t] =
            [Goto(t, IF task[t].flag THEN "ru_delete" ELSE "ru_upstream")
               EXCEPT !.log = Append(task[t].log, GitRun("push new", ok))]]
       /\ repo' = [repo EXCEPT !.remoteRefs =
            IF ok THEN @ \cup {<<task[t].remote_name, task[t].new_branch>>} ELSE @]
  /\ UNCHANGED <<workspaces, persisted, sessions, live, dirs, nextId, nextPid,
                 cmds, ioFailed, remote, branches>>

\* git push <remote> new:new (the old branch has a remote) or
\* git push <remote> new (it has none); Git refuses to push a branch that
\* does not exist locally.
RenameUpstreamPush(t) ==
  /\ task[t].pc = "ru_push"
  /\ \E ok \in (IF git_branch_exists(task[t].parent.id, task[t].new_branch)
               THEN BOOLEAN ELSE {FALSE}) :
       /\ task' = [task EXCEPT ![t] =
            LET log == Append(task[t].log, GitRun("push new", ok))
            IN IF ~ok THEN [FinishUpstream(t, "git failed") EXCEPT !.log = log]
               ELSE [Goto(t, IF task[t].flag THEN "ru_delete" ELSE "ru_upstream")
                       EXCEPT !.log = log]]
       /\ repo' = [repo EXCEPT !.remoteRefs =
            IF ok THEN @ \cup {<<task[t].remote_name, task[t].new_branch>>} ELSE @]
  /\ UNCHANGED <<workspaces, persisted, sessions, live, dirs, nextId, nextPid,
                 cmds, ioFailed, remote, branches>>

\* git push <remote> :old; Git refuses to delete a ref the remote does not
\* have.
RenameUpstreamDelete(t) ==
  /\ task[t].pc = "ru_delete"
  /\ \E ok \in (IF git_remote_branch_exists(task[t].parent.id, task[t].remote_name,
                                           task[t].old_branch)
               THEN BOOLEAN ELSE {FALSE}) :
       /\ task' = [task EXCEPT ![t] =
            LET log == Append(task[t].log, GitRun("delete old", ok))
            IN IF ~ok THEN [FinishUpstream(t, "git failed") EXCEPT !.log = log]
               ELSE [Goto(t, "ru_upstream") EXCEPT !.log = log]]
       /\ repo' = [repo EXCEPT !.remoteRefs =
            IF ok THEN @ \ {<<task[t].remote_name, task[t].old_branch>>} ELSE @]
  /\ UNCHANGED <<workspaces, persisted, sessions, live, dirs, nextId, nextPid,
                 cmds, ioFailed, remote, branches>>

\* git branch --set-upstream-to <remote>/new new; Git refuses when the local
\* branch or the remote branch is missing.
RenameUpstreamSetUpstream(t) ==
  /\ task[t].pc = "ru_upstream"
  /\ \E ok \in (IF /\ git_branch_exists(task[t].parent.id, task[t].new_branch)
                  /\ git_remote_branch_exists(task[t].parent.id,
                                              task[t].remote_name,
                                              task[t].new_branch)
               THEN BOOLEAN ELSE {FALSE}) :
       /\ task' = [task EXCEPT ![t] =
            [FinishUpstream(t, IF ok THEN "Ok" ELSE "git failed") EXCEPT
               !.log = Append(task[t].log, GitRun("set upstream", ok))]]
       /\ repo' = [repo EXCEPT !.tracked =
            IF ok
            THEN {x \in @ : x[1] # task[t].new_branch}
                   \cup {<<task[t].new_branch, task[t].remote_name>>}
            ELSE @]
  /\ UNCHANGED <<workspaces, persisted, sessions, live, dirs, nextId, nextPid,
                 cmds, ioFailed, remote, branches>>

UpstreamStep(t) ==
  \/ call_remote(t)
  \/ StartRenameWorktreeUpstream(t) \/ RenameUpstreamLocal(t)
  \/ RenameUpstreamRemote(t) \/ RenameUpstreamExists(t) \/ RenameUpstreamPush(t)
  \/ RenameUpstreamDelete(t) \/ RenameUpstreamSetUpstream(t)

\* The registry as loaded, both entries connected; the parent's repository
\* after any local branch rename of worktree 2 (a to b), with any tracking
\* configuration of the old branch, origin configured or not, and any
\* branches on the remotes.
InitUpstream ==
  /\ workspaces = LoadedRegistry
  /\ persisted = LoadedRegistry
  /\ sessions = [i \in {1, 2} |-> i]
  /\ live = DOMAIN sessions
  /\ dirs = {<<1, <<"a">>, 1>>}
  /\ nextId = 3
  /\ nextPid = 3
  /\ cmds = 0
  /\ ioFailed = FALSE
  /\ remote \in BOOLEAN
  /\ branches \in {LoadedBranches, {<<1, <<"b">>>>}, {<<1, <<"a">>>>, <<1, <<"b">>>>}}
  /\ \E tr \in {{}} \cup {{<<<<"a">>, r>>} : r \in RemoteNames},
        o \in BOOLEAN,
        refs \in SUBSET (RemoteNames \X {<<"a">>, <<"b">>}) :
       /\ (\E x \in tr : x[2] = "origin") => o
       /\ \A x \in refs : x[1] = "origin" => o
       /\ \A x \in refs : x[1] = "fork" => tr = {<<<<"a">>, "fork">>}
       /\ repo = [QuietRepo EXCEPT !.tracked = tr, !.hasOrigin = o,
                                   !.remoteRefs = refs]
  /\ task = [t \in Tasks |-> IdleTask]

NextUpstream == \E t \in Tasks : UpstreamStep(t)

SpecUpstream == InitUpstream /\ [][NextUpstream]_vars

(* --------------------- commands that check the kind ------------------- *)
\* The commands that refuse an entry of the wrong kind, run together:
\* remove_workspace, remove_worktree, rename_worktree,
\* rename_worktree_upstream and apply_worktree_changes.
KindStep(t) ==
  \/ call_remote(t)
  \/ StartRemoveWorkspace(t) \/ RemoveWorkspaceChild(t)
  \/ RemoveWorkspaceSession(t) \/ RemoveWorkspaceFinal(t)
  \/ StartRemoveWorktree(t) \/ RemoveWorktreeGit(t) \/ RemoveWorktreeFinal(t)
  \/ StartRenameWorktree(t) \/ RenameWorktreeGit(t) \/ RenameWorktreeMove(t)
  \/ RenameWorktreeMutate(t)
  \/ RenameWorktreeWrite(t) \/ RenameWorktreeRemove(t) \/ RenameWorktreeSpawn(t)
  \/ RenameWorktreeInstall(t)
  \/ StartRenameWorktreeUpstream(t) \/ RenameUpstreamLocal(t)
  \/ RenameUpstreamRemote(t) \/ RenameUpstreamExists(t) \/ RenameUpstreamPush(t)
  \/ RenameUpstreamDelete(t) \/ RenameUpstreamSetUpstream(t)
  \/ StartApplyWorktreeChanges(t) \/ ApplyStatus(t) \/ ApplyDiff(t) \/ ApplyGit(t)

\* The registry as loaded, both entries connected; branch a tracks origin or
\* nothing, origin has branch a, branch b exists locally or not, and the
\* worktree has a staged change or none.
InitKind ==
  /\ workspaces = LoadedRegistry
  /\ persisted = LoadedRegistry
  /\ sessions = [i \in {1, 2} |-> i]
  /\ live = DOMAIN sessions
  /\ dirs = {<<1, <<"a">>, 1>>}
  /\ nextId = 3
  /\ nextPid = 3
  /\ cmds = 0
  /\ ioFailed = FALSE
  /\ remote \in BOOLEAN
  /\ branches \in {LoadedBranches, LoadedBranches \cup {<<1, <<"b">>>>}}
  /\ \E tr \in {{}, {<<<<"a">>, "origin">>}}, c \in {{}, {"staged"}} :
       repo = [QuietRepo EXCEPT !.tracked = tr, !.hasOrigin = TRUE,
                                !.remoteRefs = {<<"origin", <<"a">>>>},
                                !.changes = c]
  /\ task = [t \in Tasks |-> IdleTask]

NextKind == \E t \in Tasks : KindStep(t)

SpecKind == InitKind /\ [][NextKind]_vars

Step(t) ==
  \/ call_remote(t) \/ ListWorkspaces(t)
  \/ StartAddWorkspace(t) \/ AddWorkspaceSpawn(t) \/ AddWorkspaceInsert(t)
  \/ AddWorkspaceRollback(t) \/ AddWorkspaceSessions(t)
  \/ StartAddClone(t) \/ AddCloneGit(t) \/ AddCloneSpawn(t) \/ AddCloneInsert(t)
  \/ AddCloneRollback(t) \/ AddCloneSessions(t)
  \/ StartAddWorktree(t) \/ AddWorktreeGit(t) \/ AddWorktreeSpawn(t)
  \/ AddWorktreeInsert(t) \/ AddWorktreeSessions(t)
  \/ StartRemoveWorkspace(t) \/ RemoveWorkspaceChild(t)
  \/ RemoveWorkspaceSession(t) \/ RemoveWorkspaceFinal(t)
  \/ StartRemoveWorktree(t) \/ RemoveWorktreeGit(t) \/ RemoveWorktreeFinal(t)
  \/ StartConnectWorkspace(t) \/ ConnectWorkspaceSpawn(t)
  \/ ConnectWorkspaceInsert(t)
  \/ StartUpdateCodexBin(t) \/ UpdateCodexBinWrite(t)
  \/ StartUpdateSettings(t) \/ UpdateSettingsSpawn(t) \/ UpdateSettingsInstall(t)
  \/ UpdateSettingsChildCheck(t) \/ UpdateSettingsChildSpawn(t)
  \/ UpdateSettingsChildInstall(t) \/ UpdateSettingsList(t)
  \/ UpdateSettingsWrite(t)
  \/ StartRenameWorktree(t) \/ RenameWorktreeGit(t) \/ RenameWorktreeMove(t)
  \/ RenameWorktreeMutate(t)
  \/ RenameWorktreeWrite(t) \/ RenameWorktreeRemove(t) \/ RenameWorktreeSpawn(t)
  \/ RenameWorktreeInstall(t)

Next == \E t \in Tasks : Step(t)

Spec == Init /\ [][Next]_vars

\* One command at a time: a command starts only when no other is running.
NextSeq == \E t \in Tasks : (\A u \in Tasks \ {t} : Quiet(u)) /\ Step(t)

SpecSeq == Init /\ [][NextSeq]_vars

(* ------------------------- list_workspace_files ------------------------ *)
\* The entry is looked up under the registry lock; the listing itself reads
\* the directory and changes nothing.
ListWorkspaceFiles(t) ==
  /\ RegistryFree
  /\ LocalMode(t)
  /\ \E workspace_id \in Ids :
       task' = [task EXCEPT ![t] =
         [Begin(t, "list_workspace_files", workspace_id, "done") EXCEPT
            !.ret = IF workspace_id \in DOMAIN workspaces THEN "Ok"
                    ELSE "workspace not found"]]
  /\ cmds' = cmds + 1
  /\ UNCHANGED <<workspaces, persisted, sessions, live, dirs, nextId, nextPid,
                 ioFailed, remote, branches, repo>>

(* ----------------- every command, issued one at a time ----------------- *)
AllStep(t) ==
  \/ Step(t) \/ UpstreamStep(t) \/ ApplyStep(t) \/ ListWorkspaceFiles(t)

\* The registry as loaded, both entries connected or none; branch a tracks
\* origin, origin
\* has branch a, branch b exists locally, and the worktree has a staged
\* change.
InitAll ==
  /\ workspaces = LoadedRegistry
  /\ persisted = LoadedRegistry
  /\ \E c \in {{}, {1, 2}} : sessions = [i \in c |-> i]
  /\ live = DOMAIN sessions
  /\ dirs = {<<1, <<"a">>, 1>>}
  /\ nextId = 3
  /\ nextPid = 3
  /\ cmds = 0
  /\ ioFailed = FALSE
  /\ remote \in BOOLEAN
  /\ branches = LoadedBranches \cup {<<1, <<"b">>>>}
  /\ repo = [QuietRepo EXCEPT !.tracked = {<<<<"a">>, "origin">>},
                              !.hasOrigin = TRUE,
                              !.remoteRefs = {<<"origin", <<"a">>>>},
                              !.changes = {"staged"}]
  /\ task = [t \in Tasks |-> IdleTask]

NextSeqAll == \E t \in Tasks : (\A u \in Tasks \ {t} : Quiet(u)) /\ AllStep(t)

SpecSeqAll == InitAll /\ [][NextSeqAll]_vars

(* ----------------------------- lock discipline ------------------------- *)
\* Each command as the sequence of its lock operations and awaited calls, in
\* the order of the source.  An instruction is <<kind, name, n>>:
\*   lock / unlock  acquire the mutex name / drop its guard
\*   call           an awaited call whose result does not end the command
\*   try            a call or check followed by `?` or an early return
\*   opt            a conditional block of n instructions that may be skipped
\*   local          the n instructions of the remote branch, skipped in local mode
\*   ret            return
Lk(x) == <<"lock", x, 0>>
Un(x) == <<"unlock", x, 0>>
Call(x) == <<"call", x, 0>>
Try(x) == <<"try", x, 0>>
Ret == <<"ret", "", 0>>
OptBlock(prog) == << <<"opt", "", Len(prog)>> >> \o prog

\* if is_remote_mode(..).await { call_remote(..).await?; return .. }
RemoteCheck ==
  <<Call("is_remote_mode"), <<"local", "", 2>>, Try("call_remote"), Ret>>
\* { let workspaces = state.workspaces.lock().await; .. .ok_or(..)? .. }
RegistryLookup == <<Lk("workspaces"), Try("lookup"), Un("workspaces")>>
\* { let settings = state.app_settings.lock().await; .. }
AppSettingsRead == <<Lk("app_settings"), Un("app_settings")>>
\* state.sessions.lock().await.contains_key(..) / .insert(..) as a statement
SessionsOnce == <<Lk("sessions"), Un("sessions")>>
\* if let Some(session) = state.sessions.lock().await.remove(..) / .insert(..)
\* { session.child.lock().await.kill().await }: the guard of the sessions
\* map is a temporary of the scrutinee and lives to the end of the block.
KillEvicted ==
  <<Lk("sessions")>>
    \o OptBlock(<<Lk("child"), Call("kill"), Un("child")>>)
    \o <<Un("sessions")>>
\* The rollback of add_workspace and add_clone: the entry is taken out of the
\* registry again and the spawned session is killed.
RollbackInsert(rest) ==
  OptBlock(<<Lk("workspaces"), Un("workspaces"),
             Lk("child"), Call("kill"), Un("child")>> \o rest \o <<Ret>>)

Locks_list_workspaces ==
  RemoteCheck
    \o <<Lk("workspaces"), Lk("sessions"), Un("sessions"), Un("workspaces")>>

Locks_read_workspace_file ==
  RemoteCheck
    \o <<Lk("workspaces"), Try("lookup"), Call("read_workspace_file_inner"),
         Un("workspaces")>>

Locks_list_workspace_files ==
  RemoteCheck
    \o <<Lk("workspaces"), Try("lookup"), Call("list_workspace_files_inner"),
         Un("workspaces")>>

Locks_add_workspace ==
  RemoteCheck
    \o <<Try("is_dir")>> \o AppSettingsRead \o <<Try("spawn")>>
    \o <<Lk("workspaces"), Call("write_workspaces"), Un("workspaces")>>
    \o RollbackInsert(<<>>)
    \o SessionsOnce

Locks_add_clone ==
  <<Try("arguments")>> \o RegistryLookup
    \o <<Try("git clone"), Call("git_get_origin_url")>>
    \o AppSettingsRead \o <<Try("spawn")>>
    \o <<Lk("workspaces"), Call("write_workspaces"), Un("workspaces")>>
    \o RollbackInsert(<<Call("remove_dir_all")>>)
    \o SessionsOnce

Locks_add_worktree ==
  RemoteCheck
    \o <<Try("arguments")>> \o RegistryLookup
    \o <<Try("git_branch_exists"), Try("git worktree add")>>
    \o AppSettingsRead \o <<Try("spawn")>>
    \o <<Lk("workspaces"), Try("write_workspaces"), Un("workspaces")>>
    \o SessionsOnce

\* One round of the loop over the child worktrees of remove_workspace.
RemoveChild == KillEvicted \o <<Try("git worktree remove")>>

Locks_remove_workspace ==
  RemoteCheck
    \o RegistryLookup
    \o OptBlock(RemoveChild \o OptBlock(RemoveChild))
    \o <<Call("git worktree prune")>>
    \o KillEvicted
    \o <<Lk("workspaces"), Try("write_workspaces"), Un("workspaces")>>

\* remove_worktree taking the registry while it still holds the sessions map.
Locks_remove_worktree_nested ==
  RemoteCheck
    \o RegistryLookup
    \o <<Lk("sessions")>>
    \o OptBlock(<<Lk("child"), Call("kill"), Un("child")>>)
    \o <<Try("git worktree remove"), Call("git worktree prune")>>
    \o <<Lk("workspaces"), Try("write_workspaces"), Un("workspaces")>>
    \o <<Un("sessions")>>

Locks_remove_worktree ==
  RemoteCheck
    \o RegistryLookup
    \o KillEvicted
    \o <<Try("git worktree remove"), Call("git worktree prune")>>
    \o <<Lk("workspaces"), Try("write_workspaces"), Un("workspaces")>>

Locks_rename_worktree ==
  RemoteCheck
    \o <<Try("arguments")>> \o RegistryLookup
    \o <<Try("unique_branch_name"), Try("git branch -m"),
         Try("unique_worktree_path_for_rename"), Call("git worktree move")>>
    \o OptBlock(<<Call("git branch -m"), Ret>>)
    \o RegistryLookup
    \o <<Try("write_workspaces")>>
    \o SessionsOnce
    \o OptBlock(KillEvicted \o AppSettingsRead \o <<Call("spawn")>>
                  \o OptBlock(SessionsOnce))
    \o SessionsOnce

Locks_rename_worktree_upstream ==
  RemoteCheck
    \o <<Try("arguments")>> \o RegistryLookup
    \o <<Try("git_branch_exists"), Try("git_find_remote_for_branch"),
         Try("git_remote_exists"), Try("git_remote_branch_exists"),
         Try("git push"), Try("git push --delete"),
         Try("git branch --set-upstream-to")>>

Locks_apply_worktree_changes ==
  RegistryLookup
    \o <<Try("git status"), Try("git diff"), Try("git apply")>>

\* One round of the loop over the child worktrees of update_workspace_settings.
RespawnChild ==
  SessionsOnce \o OptBlock(<<Call("spawn")>> \o OptBlock(KillEvicted))

Locks_update_workspace_settings ==
  RemoteCheck
    \o RegistryLookup
    \o SessionsOnce
    \o OptBlock(AppSettingsRead \o <<Call("spawn")>>
                  \o OptBlock(<<Lk("workspaces"), Un("workspaces"), Ret>>)
                  \o KillEvicted)
    \o OptBlock(AppSettingsRead \o OptBlock(RespawnChild \o OptBlock(RespawnChild)))
    \o <<Lk("workspaces"), Un("workspaces"), Try("write_workspaces")>>

Locks_update_workspace_codex_bin ==
  RemoteCheck
    \o RegistryLookup
    \o <<Try("write_workspaces")>>
    \o SessionsOnce

Locks_connect_workspace ==
  RemoteCheck
    \o RegistryLookup \o AppSettingsRead \o <<Try("spawn")>>
    \o SessionsOnce

LockOps ==
  {"list_workspaces", "read_workspace_file", "list_workspace_files",
   "add_workspace", "add_clone", "add_worktree", "remove_workspace",
   "remove_worktree", "rename_worktree", "rename_worktree_upstream",
   "apply_worktree_changes", "update_workspace_settings",
   "update_workspace_codex_bin", "connect_workspace"}

LockProgram(op) ==
  CASE op = "list_workspaces" -> Locks_list_workspaces
    [] op = "read_workspace_file" -> Locks_read_workspace_file
    [] op = "list_workspace_files" -> Locks_list_workspace_files
    [] op = "add_workspace" -> Locks_add_workspace
    [] op = "add_clone" -> Locks_add_clone
    [] op = "add_worktree" -> Locks_add_worktree
    [] op = "remove_workspace" -> Locks_remove_workspace
    [] op = "remove_worktree" -> Locks_remove_worktree
    [] op = "rename_worktree" -> Locks_rename_worktree
    [] op = "rename_worktree_upstream" -> Locks_rename_worktree_upstream
    [] op = "apply_worktree_changes" -> Locks_apply_worktree_changes
    [] op = "update_workspace_settings" -> Locks_update_workspace_settings
    [] op = "update_workspace_codex_bin" -> Locks_update_workspace_codex_bin
    [] op = "connect_workspace" -> Locks_connect_workspace

\* The instruction task t is at.
Ins(t) == LockProgram(task[t].op)[task[t].at]
AtIns(t, kind) == task[t].pc = "locks" /\ Ins(t)[1] = kind
\* A tokio Mutex is free when no task holds its guard (it is not reentrant).
Free(x) == \A u \in Tasks : x \notin task[u].held
\* The command goes on n instructions further, or returns Ok past the last.
Advance(t, n) ==
  IF task[t].at + n > Len(LockProgram(task[t].op))
  THEN Finish(t, "Ok")
  ELSE [task[t] EXCEPT !.at = task[t].at + n]
LockFrame ==
  UNCHANGED <<workspaces, persisted, sessions, live, dirs, nextId, nextPid,
              cmds, ioFailed, remote, branches, repo>>

StartLocked(t) ==
  /\ CanStart(t)
  /\ \E op \in LockOps :
       task' = [task EXCEPT ![t] = [Begin(t, op, 0, "locks") EXCEPT !.at = 1]]
  /\ cmds' = cmds + 1
  /\ UNCHANGED <<workspaces, persisted, sessions, live, dirs, nextId, nextPid,
                 ioFailed, remote, branches, repo>>

\* mutex.lock().await: the task waits until the mutex is free.
LockAcquire(t) ==
  /\ AtIns(t, "lock")
  /\ Free(Ins(t)[2])
  /\ task' = [task EXCEPT ![t] =
       [Advance(t, 1) EXCEPT !.held = task[t].held \cup {Ins(t)[2]}]]
  /\ LockFrame

\* The guard goes out of scope.
LockRelease(t) ==
  /\ AtIns(t, "unlock")
  /\ task' = [task EXCEPT ![t] =
       [Advance(t, 1) EXCEPT !.held = task[t].held \ {Ins(t)[2]}]]
  /\ LockFrame

\* An awaited Git call, spawn, kill or file operation returns.
LockCall(t) ==
  /\ AtIns(t, "call")
  /\ task' = [task EXCEPT ![t] = Advance(t, 1)]
  /\ LockFrame

\* A fallible step: the command goes on, or returns the error and every
\* guard it holds is dropped.
LockTry(t) ==
  /\ AtIns(t, "try")
  /\ \/ task' = [task EXCEPT ![t] = Advance(t, 1)]
     \/ task' = [task EXCEPT ![t] = Finish(t, "Err")]
  /\ LockFrame

\* A conditional block is entered or skipped.
LockOpt(t) ==
  /\ AtIns(t, "opt")
  /\ \/ task' = [task EXCEPT ![t] = Advance(t, 1)]
     \/ task' = [task EXCEPT ![t] = Advance(t, 1 + Ins(t)[3])]
  /\ LockFrame

\* The remote branch is entered in remote mode only.
LockLocal(t) ==
  /\ AtIns(t, "local")
  /\ task' = [task EXCEPT ![t] =
       IF remote THEN Advance(t, 1) ELSE Advance(t, 1 + Ins(t)[3])]
  /\ LockFrame

\* return: every guard the command holds is dropped.
LockReturn(t) ==
  /\ AtIns(t, "ret")
  /\ task' = [task EXCEPT ![t] = Finish(t, "returned")]
  /\ LockFrame

\* The steps of a running command; the runtime polls every task that can
\* make progress.
LockStep(t) ==
  \/ LockAcquire(t)
  \/ LockRelease(t)
  \/ LockCall(t)
  \/ LockTry(t)
  \/ LockOpt(t)
  \/ LockLocal(t)
  \/ LockReturn(t)

NextLocks == \E t \in Tasks : StartLocked(t) \/ LockStep(t)

\* The lock operations do not depend on the registry's content: both loaded
\* workspaces are connected, in either mode.
InitLocks == Init /\ DOMAIN sessions = {1, 2}

SpecLocks ==
  InitLocks /\ [][NextLocks]_vars /\ \A t \in Tasks : WF_vars(LockStep(t))

(* ------------------------------ properties ----------------------------- *)
AllQuiet == \A t \in Tasks : Quiet(t)

\* The step in which task t's command returns.
Returns(t) == task[t].pc \notin {"idle", "done"} /\ task'[t].pc = "done"

\* C1: in every reachable state the ids of the sessions map are ids of the
\* registry: no session exists for a workspace that is not registered.
C1_SessionsSubsetOfRegistry == DOMAIN sessions \subseteq DOMAIN workspaces

\* C2: in every reachable state every Worktree entry of the registry has a
\* parent_id that names a registry entry whose kind is not Worktree.
C2_WorktreeParentRegistered ==
  \A i \in DOMAIN workspaces :
    IsWorktree(workspaces[i]) =>
      /\ workspaces[i].parent_id \in DOMAIN workspaces
      /\ ~IsWorktree(workspaces[workspaces[i].parent_id])

\* C3: with the commands issued one after the other, after each call of
\* add_workspace, add_clone, add_worktree, remove_workspace or
\* remove_worktree has returned, whatever its outcome, the ids of the
\* in-memory registry are the ids of the persisted list.
C3_NoDriftAfterEachCall ==
  (\A t \in Tasks : Quiet(t)) => DOMAIN workspaces = DOMAIN persisted

\* C4: once all running commands have completed and no storage write has
\* failed, the persisted list equals the in-memory registry (every mutation
\* is written under the lock it was made under, so writes land in mutation
\* order).
C4_PersistedEqualsRegistryWhenQuiet ==
  (AllQuiet /\ ~ioFailed) => persisted = workspaces

\* A command is replacing the session of a connected workspace: from the
\* decision to respawn until the new session is in the map.
InReplacement(t) ==
  task[t].pc \in {"us_spawn", "us_install", "us_child_spawn", "us_child_install",
                  "rn_remove", "rn_spawn", "rn_install"}

ReplacementTarget(t) ==
  IF task[t].pc \in {"us_child_spawn", "us_child_install"}
  THEN task[t].child.id ELSE task[t].id

\* C5: whenever a command replaces the session of a connected workspace
\* (update_workspace_settings for the entry or for a child worktree,
\* rename_worktree), the old process is killed only in a step that leaves
\* the new session installed, and at no point of the replacement is the
\* workspace without a session.
C5_NewSessionBeforeOldKilled ==
  [][\A t \in Tasks :
       /\ (InReplacement(t) /\ live' # live /\ live' \subseteq live)
            => /\ task[t].sess # 0
               /\ ReplacementTarget(t) \in DOMAIN sessions'
               /\ sessions'[ReplacementTarget(t)] = task[t].sess
       /\ InReplacement(t)' => ReplacementTarget(t)' \in DOMAIN sessions']_vars

\* C6: when update_workspace_settings returns the error of the failed spawn
\* of the entry's own replacement session, the registry entry is the entry
\* as it was before the call, the workspace still has its session, and the
\* persisted list does not hold the attempted settings, whatever other
\* command persisted the list during the spawn.  (Stated for runs in which
\* no write has failed and the other command is not itself an
\* update_workspace_settings, so that the persisted settings can only come
\* from a list written during the call.)
C6_SpawnFailureRestoresEntry ==
  [][\A t \in Tasks :
       ( /\ task[t].pc = "us_spawn" /\ task'[t].pc = "done"
         /\ ~ioFailed
         /\ \A u \in Tasks \ {t} : task[u].op # "update_workspace_settings" ) =>
          /\ Get(workspaces', task[t].id) = task[t].prev
          /\ task[t].id \in DOMAIN sessions'
          /\ Get(persisted', task[t].id).settings # task[t].entry.settings]_vars

\* C7: when add_workspace, add_clone or add_worktree returns the error of a
\* failed write of the list, the entry it had inserted is no longer in the
\* registry, the session it had spawned has been killed, and the registry
\* holds no entry that the persisted list lacks.
C7_WriteFailureRollsBackInsert ==
  [][\A t \in Tasks :
       ( /\ task[t].op \in {"add_workspace", "add_clone", "add_worktree"}
         /\ Returns(t)
         /\ task'[t].ret = "write failed" ) =>
          /\ task[t].entry.id \notin DOMAIN workspaces'
          /\ task[t].sess \notin live'
          /\ DOMAIN workspaces' \subseteq DOMAIN persisted']_vars

\* C8: when remove_workspace on a Main entry returns Ok (every per-child
\* git worktree remove succeeded or hit the already-missing path), no
\* registry entry has that id as parent_id, also when an add_worktree on
\* the same parent runs concurrently (and no write of the list has failed).
C8_NoChildLeftAfterRemoveWorkspace ==
  [][\A t \in Tasks :
       ( /\ task[t].op = "remove_workspace" /\ Returns(t)
         /\ task'[t].ret = "Ok" /\ ~ioFailed' )
         => \A i \in DOMAIN workspaces' :
              workspaces'[i].parent_id # task[t].id]_vars

\* The step in which task t takes a new command op.
StartsCmd(t, op) ==
  /\ cmds' = cmds + 1
  /\ task'[t].seq = cmds'
  /\ task'[t].op = op

WorktreeParentError == "Cannot create a worktree from another worktree."

\* C9 as stated: add_worktree on a parent_id that names a Worktree entry
\* returns the InvalidOperation error for every branch string, empty and
\* whitespace-only ones included, and changes neither the registry, the
\* persisted list, the sessions nor the file system.
C9_WorktreeParentAlwaysInvalidOperation ==
  [][\A t \in Tasks :
       ( /\ StartsCmd(t, "add_worktree")
         /\ task'[t].id \in DOMAIN workspaces
         /\ IsWorktree(workspaces[task'[t].id]) ) =>
          /\ task'[t].pc = "done"
          /\ task'[t].ret = WorktreeParentError
          /\ UNCHANGED <<workspaces, persisted, sessions, live, dirs>>]_vars

\* C9 amended: add_worktree on a parent_id that names a Worktree entry
\* always fails and changes nothing; the error is "Branch name is required."
\* when the branch is empty after trimming, and the InvalidOperation error
\* for every other branch string.
C9_WorktreeParentFailsBranchCheckedFirst ==
  [][\A t \in Tasks :
       ( /\ StartsCmd(t, "add_worktree")
         /\ task'[t].id \in DOMAIN workspaces
         /\ IsWorktree(workspaces[task'[t].id]) ) =>
          /\ task'[t].pc = "done"
          /\ task'[t].ret = IF Trim(task'[t].branch) = <<>>
                            THEN "Branch name is required."
                            ELSE WorktreeParentError
          /\ UNCHANGED <<workspaces, persisted, sessions, live, dirs>>]_vars

\* C9 witness: add_worktree was called twice on worktree 2, once with a
\* branch that is empty after trimming and once with a proper branch, and
\* returned the two errors.
C9_Witness ==
  /\ 2 \in DOMAIN workspaces /\ IsWorktree(workspaces[2])
  /\ \A t \in Tasks :
       task[t].op = "add_worktree" /\ task[t].pc = "done" /\ task[t].id = 2
  /\ \E t, u \in Tasks :
       /\ Trim(task[t].branch) = <<>> /\ task[t].branch # <<>>
       /\ task[t].ret = "Branch name is required."
       /\ Trim(task[u].branch) # <<>>
       /\ task[u].ret = WorktreeParentError

\* The effective home or the effective args of child c differ by value
\* between the parent's previous and the parent's new settings.
EffectiveChanged(c, prev, next) ==
  \/ resolve_workspace_codex_home(c, prev) # resolve_workspace_codex_home(c, next)
  \/ resolve_workspace_codex_args(c, prev) # resolve_workspace_codex_args(c, next)

\* The child entry with id i as update_workspace_settings read it.
ChildOf(t, i) == CHOOSE c \in task[t].children : c.id = i

\* The step in which update_workspace_settings is done with child i.
ChildSettled(t, i) ==
  /\ task[t].pc \in {"us_children", "us_child_spawn", "us_child_install"}
  /\ i \in task[t].todo
  /\ i \notin task'[t].todo

\* That step installs a newly spawned session for child i and kills the
\* session the child had.
ChildReplaced(t, i) ==
  /\ i \in DOMAIN sessions'
  /\ sessions'[i] \notin {sessions[j] : j \in DOMAIN sessions}
  /\ sessions'[i] \in live'
  /\ i \in DOMAIN sessions => sessions[i] \notin live'

\* The check of child i came out as: connected, effective config changed.
\* (A child is at the spawn or the install only after that check.)
ChildCheckPassed(t, i) ==
  IF task[t].pc = "us_children"
  THEN i \in DOMAIN sessions /\ EffectiveChanged(ChildOf(t, i), task[t].prev, task[t].entry)
  ELSE TRUE

\* C10 as stated: the session of a child worktree is replaced if and only
\* if the child is connected at the check and its effective home or args
\* differ between the parent's previous and new settings.
C10_ChildReplacedIffEffectiveChanged ==
  [][\A t \in Tasks : \A i \in Ids :
       ChildSettled(t, i) => (ChildReplaced(t, i) <=> ChildCheckPassed(t, i))]_vars

\* C10 amended: a child's session is replaced if and only if the child is
\* connected at the check, its effective home or args differ by value and
\* the spawn of the new session succeeds.  A child that is not connected or
\* whose effective config is unchanged is not spawned and keeps its session
\* state; a child whose spawn fails keeps its session.
C10_ChildReplacedIffChangedAndSpawned ==
  [][\A t \in Tasks :
       /\ (task[t].pc = "us_children" /\ task'[t].pc = "us_child_spawn") =>
            /\ task'[t].child \in task[t].children
            /\ task'[t].child.id \in task[t].todo
            /\ task'[t].child.id \in DOMAIN sessions
            /\ EffectiveChanged(task'[t].child, task[t].prev, task[t].entry)
       /\ (task[t].pc = "us_child_spawn" /\ task'[t].pc = "us_child_install") =>
            /\ task'[t].sess \in live' \ live
            /\ task'[t].child = task[t].child
            /\ task'[t].todo = task[t].todo
       /\ \A i \in Ids :
            ChildSettled(t, i) =>
              IF task[t].pc = "us_child_install"
              THEN /\ i = task[t].child.id
                   /\ sessions'[i] = task[t].sess
                   /\ ChildReplaced(t, i)
              ELSE /\ UNCHANGED <<sessions, live, nextPid>>
                   /\ task[t].pc = "us_children" => ~ChildCheckPassed(t, i)
                   /\ task[t].pc = "us_child_spawn" => i = task[t].child.id]_vars

\* C10 witness: update_workspace_settings on Main 1 is the only command
\* issued so far, it is done with child 2, and child 2 has a session that
\* is not the one it started with.
C10_Witness ==
  \E t \in Tasks :
    /\ task[t].op = "update_workspace_settings" /\ task[t].id = 1
    /\ \A u \in Tasks \ {t} : task[u].op = "none"
    /\ 2 \in {c.id : c \in task[t].children} /\ 2 \notin task[t].todo
    /\ 2 \in DOMAIN sessions /\ sessions[2] # 2 /\ sessions[2] \in live
    /\ 2 \notin live

\* The effective home or the effective args of the updated entry itself
\* differ by value between its previous and its new settings.
OwnEffectiveChanged(prev, next, parent) ==
  \/ resolve_workspace_codex_home(prev, parent) # resolve_workspace_codex_home(next, parent)
  \/ resolve_workspace_codex_args(prev, parent) # resolve_workspace_codex_args(next, parent)

\* C11: update_workspace_settings goes on to replace the updated entry's
\* own session if and only if the entry is connected and its effective home
\* or effective args, compared by value before and after the update,
\* changed; a change of the raw settings that leaves both effective values
\* equal starts no respawn.  (Stated for runs without a failed write.)
C11_OwnRespawnIffEffectiveChanged ==
  [][\A t \in Tasks :
       ( /\ StartsCmd(t, "update_workspace_settings")
         /\ task'[t].id \in DOMAIN workspaces
         /\ ~ioFailed ) =>
          ( task'[t].pc = "us_spawn" <=>
              /\ task'[t].id \in DOMAIN sessions
              /\ OwnEffectiveChanged(workspaces[task'[t].id],
                                     workspaces'[task'[t].id],
                                     Get(workspaces, workspaces[task'[t].id].parent_id)) )]_vars

\* C12: while the remote-mode flag is set, no command executes locally:
\* the registry, the sessions map and the persisted list stay as they are,
\* no process is spawned or killed and no Git or file-system operation
\* changes the disk.
C12_RemoteModeRunsNothingLocally ==
  [][remote => UNCHANGED <<workspaces, sessions, persisted, live, nextPid,
                           dirs, branches, repo>>]_vars

\* apply_worktree_changes of task t returns in this step, after it read a
\* worktree entry and its parent from the registry.
ApplyReturns(t) ==
  /\ task[t].op = "apply_worktree_changes"
  /\ Returns(t)
  /\ IsWorktree(task[t].entry)

\* C13 as stated: apply_worktree_changes on a worktree without staged,
\* unstaged or untracked changes fails with "No changes to apply." whatever
\* the state of the parent repository (a failure of a Git command aside),
\* and changes neither the parent's working tree nor the registry nor the
\* sessions map.
C13_NoChangesAlwaysNoChangesError ==
  [][\A t \in Tasks :
       (ApplyReturns(t) /\ repo.changes = {} /\ task'[t].ret # "git failed") =>
          /\ task'[t].ret = "No changes to apply."
          /\ UNCHANGED <<repo, workspaces, sessions, persisted>>]_vars

\* C13 amended: on a worktree without changes the command fails with the
\* uncommitted-changes error when the parent's porcelain status is not
\* empty and with "No changes to apply." when it is empty (or with the
\* error of a failed Git command); git apply is not run and nothing changes;
\* two calls without intervening edits return the same error.
C13_NoChangesFailsByParentState ==
  [][/\ \A t \in Tasks :
          (ApplyReturns(t) /\ repo.changes = {}) =>
             /\ task'[t].ret \in
                  {"git failed",
                   IF repo.parentDirty THEN DirtyParentError
                   ELSE "No changes to apply."}
             /\ ~Contains(task'[t].log, "apply")
             /\ UNCHANGED <<repo, workspaces, sessions, persisted>>
     /\ \A t, u \in Tasks :
          ( /\ repo.changes = {}
            /\ task[t].op = "apply_worktree_changes" /\ task[t].pc = "done"
            /\ task[u].op = "apply_worktree_changes" /\ task[u].pc = "done"
            /\ task[t].id = task[u].id
            /\ "git failed" \notin {task[t].ret, task[u].ret} ) =>
             task[t].ret = task[u].ret]_vars

\* C13 witness: two calls on worktree 2, which has no changes, with a clean
\* parent: both have returned "No changes to apply.".
C13_Witness ==
  /\ repo.changes = {} /\ ~repo.parentDirty
  /\ \A t \in Tasks :
       /\ task[t].op = "apply_worktree_changes" /\ task[t].pc = "done"
       /\ task[t].id = 2 /\ task[t].ret = "No changes to apply."
  /\ \E t, u \in Tasks : task[t].seq = 1 /\ task[u].seq = 2

\* C14: git apply runs against the parent only for a target of kind
\* Worktree whose parent's porcelain status was empty when it was checked:
\* a target that is not a worktree fails with "Not a worktree workspace.",
\* a parent with uncommitted changes fails with the commit / stash / discard
\* error, and both leave the parent's working tree as it is.
C14_ApplyOnlyForWorktreeWithCleanParent ==
  [][/\ \A t \in Tasks :
          /\ ( /\ StartsCmd(t, "apply_worktree_changes")
               /\ task'[t].id \in DOMAIN workspaces
               /\ ~IsWorktree(workspaces[task'[t].id]) ) =>
                /\ task'[t].pc = "done"
                /\ task'[t].ret = "Not a worktree workspace."
                /\ UNCHANGED repo
          /\ ( /\ task[t].pc = "ap_status" /\ task'[t] # task[t]
               /\ repo.parentDirty ) =>
                /\ task'[t].pc = "done"
                /\ task'[t].ret \in {DirtyParentError, "git failed"}
                /\ UNCHANGED repo
          /\ (task[t].pc # "ap_diff" /\ task'[t].pc = "ap_diff") =>
                /\ task[t].pc = "ap_status"
                /\ IsWorktree(task[t].entry)
                /\ ~repo.parentDirty
          /\ (task[t].pc # "ap_apply" /\ task'[t].pc = "ap_apply") =>
                task[t].pc = "ap_diff"
          /\ (Contains(task'[t].log, "apply") /\ ~Contains(task[t].log, "apply")) =>
                task[t].pc = "ap_apply"
     /\ repo' # repo =>
          \E t \in Tasks : task[t].pc = "ap_apply" /\ Contains(task'[t].log, "apply")]_vars

\* C14 witness: one call has run git apply with success for worktree 2, and
\* the next call was refused because the parent now has uncommitted
\* changes.
C14_Witness ==
  \E t, u \in Tasks :
    /\ task[t].op = "apply_worktree_changes" /\ task[t].pc = "done"
    /\ task[t].ret = "Ok" /\ Contains(task[t].log, "apply")
    /\ task[u].op = "apply_worktree_changes" /\ task[u].pc = "done"
    /\ task[u].seq > task[t].seq
    /\ task[u].ret = DirtyParentError
    /\ repo.parentDirty

\* C15 as stated: the result after git apply is decided on the combined
\* text of stdout and stderr: Ok on success; the conflict error when the
\* text has "Applied patch to" and "with conflicts"; the partial error when
\* it has "Applied patch to" without "with conflicts"; the raw Git text
\* otherwise.
C15_ResultFromCombinedOutput ==
  [][\A t \in Tasks :
       (task[t].pc = "ap_apply" /\ task'[t].pc = "done") =>
          LET out == task'[t].out
              text == out.stdout \o out.stderr
          IN task'[t].ret =
               IF out.success THEN "Ok"
               ELSE IF Contains(text, "Applied patch to") /\ Contains(text, "with conflicts")
               THEN ConflictError
               ELSE IF Contains(text, "Applied patch to") THEN PartialError
               ELSE "Err(detail)"]_vars

\* The text the code inspects: stderr unless it is blank, stdout then.
Inspected(out) ==
  IF \A i \in 1..Len(out.stderr) : out.stderr[i] = " " THEN out.stdout
  ELSE out.stderr

Blank(text) == \A i \in 1..Len(text) : text[i] = " "

\* C15 amended: Ok on exit status zero; otherwise the result is decided on
\* stderr alone, or on stdout alone when stderr is blank: "Git apply
\* failed." when that text is blank, the conflict error when it has both
\* fragments, the partial error when it has "Applied patch to" only, the
\* raw text otherwise.
C15_ResultFromStderrElseStdout ==
  [][\A t \in Tasks :
       (task[t].pc = "ap_apply" /\ task'[t].pc = "done") =>
          LET out == task'[t].out
              r == task'[t].ret
              text == Inspected(out)
          IN /\ (r = "Ok") <=> out.success
             /\ ~out.success =>
                  /\ (r = "Git apply failed.") <=> Blank(text)
                  /\ (r = ConflictError) <=>
                       "Applied patch to" \in {text[i] : i \in 1..Len(text)}
                       /\ "with conflicts" \in {text[i] : i \in 1..Len(text)}
                  /\ (r = PartialError) <=>
                       "Applied patch to" \in {text[i] : i \in 1..Len(text)}
                       /\ "with conflicts" \notin {text[i] : i \in 1..Len(text)}
                  /\ (r = "Err(detail)") <=>
                       ~Blank(text)
                       /\ "Applied patch to" \notin {text[i] : i \in 1..Len(text)}]_vars

\* C15 witness: git apply failed with a blank stderr and the conflict
\* report on stdout, and the command returned the conflict error.
C15_Witness ==
  \E t \in Tasks :
    /\ task[t].op = "apply_worktree_changes" /\ task[t].pc = "done"
    /\ ~task[t].out.success
    /\ task[t].out.stderr = <<" ">>
    /\ task[t].out.stdout = <<"Applied patch to", "with conflicts">>
    /\ task[t].ret = ConflictError

\* C16: rename_worktree on a worktree (whose parent is registered) with a
\* branch that, trimmed, is the entry's current branch returns "Branch name
\* is unchanged." at once: no Git command and no file-system operation is
\* issued, and the registry, the persisted list, the sessions and their
\* processes are as before.
C16_RenameToCurrentBranchIsRefused ==
  [][\A t \in Tasks :
       ( /\ StartsCmd(t, "rename_worktree")
         /\ task'[t].id \in DOMAIN workspaces
         /\ IsWorktree(workspaces[task'[t].id])
         /\ workspaces[task'[t].id].parent_id \in DOMAIN workspaces
         /\ Trim(task'[t].branch) = workspaces[task'[t].id].branch ) =>
          /\ task'[t].pc = "done"
          /\ task'[t].ret = "Branch name is unchanged."
          /\ UNCHANGED <<workspaces, persisted, sessions, live, nextPid, dirs,
                         branches, repo>>]_vars

\* C16 witness: rename_worktree(2, " a") has returned; worktree 2 is on
\* branch a and connected.
C16_Witness ==
  \E t \in Tasks :
    /\ task[t].op = "rename_worktree" /\ task[t].pc = "done" /\ task[t].id = 2
    /\ task[t].branch = <<" ", "a">>
    /\ task[t].ret = "Branch name is unchanged."
    /\ 2 \in DOMAIN workspaces /\ workspaces[2].branch = <<"a">>
    /\ 2 \in DOMAIN sessions

\* C17: when rename_worktree has renamed the branch and the move of the
\* worktree directory then fails, the command renames the branch back
\* (final name to old name), returns the move's error, and leaves the
\* registry entry, the persisted list, the sessions and the directories as
\* they were.
C17_MoveFailureUndoesBranchRename ==
  [][\A t \in Tasks :
       ( /\ task[t].pc = "rn_move" /\ task'[t].pc = "done"
         /\ task'[t].ret = "worktree move failed" ) =>
          LET p == task[t].parent.id
              old == task[t].entry.branch
              final == task[t].child.branch
          IN /\ (<<p, final>> \in branches /\ <<p, old>> \notin branches) =>
                  /\ <<p, old>> \in branches'
                  /\ <<p, final>> \notin branches'
             /\ UNCHANGED <<workspaces, persisted, sessions, live, dirs>>]_vars

\* C17 witness: rename_worktree(2, ...) has returned the move's error;
\* worktree 2 is registered and persisted with branch a and its old path,
\* branch a exists again, and the session it had is alive.
C17_Witness ==
  \E t \in Tasks :
    /\ task[t].op = "rename_worktree" /\ task[t].pc = "done" /\ task[t].id = 2
    /\ task[t].ret = "worktree move failed"
    /\ \A u \in Tasks \ {t} : task[u].op = "none"
    /\ workspaces = LoadedRegistry /\ persisted = LoadedRegistry
    /\ branches = LoadedBranches
    /\ dirs = {<<1, <<"a">>, 1>>}
    /\ 2 \in DOMAIN sessions /\ sessions[2] \in live

\* The Git commands of rename_worktree_upstream in their order: with a remote
\* of the old branch, and without one.
UpstreamOrder(hasRemote) ==
  IF hasRemote THEN <<"push new", "delete old", "set upstream">>
  ELSE <<"push new", "set upstream">>

\* C18: the Git steps of rename_worktree_upstream run in a fixed order,
\* each only after all earlier ones succeeded: push of the new ref, deletion
\* of the old remote ref, retargeting of the upstream when the old branch has
\* a remote; push to origin, then setting of the upstream when it has none.
\* A call that finds the new branch missing locally, no remote configured,
\* or the new name already on the remote, returns without any push; the
\* registry and the sessions map never change.
C18_UpstreamStepsInOrder ==
  /\ [](\A t \in Tasks :
          task[t].op = "rename_worktree_upstream" =>
            LET log == task[t].log
                order == UpstreamOrder(task[t].flag)
            IN /\ Len(log) <= Len(order)
               /\ \A i \in 1..Len(log) : log[i].cmd = order[i]
               /\ \A i \in 1..(Len(log) - 1) : log[i].ok
               /\ (log # <<>> /\ ~task[t].flag) => task[t].remote_name = "origin"
               /\ (task[t].pc = "done" /\ task[t].ret = "Ok") =>
                    /\ Len(log) = Len(order)
                    /\ log[Len(log)].ok
               /\ task[t].ret \in {"Local branch not found.",
                                   "No git remote configured for this worktree.",
                                   "Remote branch already exists."} => log = <<>>)
  /\ [][/\ UNCHANGED <<workspaces, sessions>>
        /\ \A t \in Tasks :
             LET p == task[t].parent.id
                 stops(msg) ==
                   /\ task'[t].pc = "done" /\ task'[t].log = <<>>
                   /\ task'[t].ret \in {msg, "git failed"}
             IN /\ (task[t].pc = "ru_local" /\ task'[t].pc # "ru_local"
                      /\ ~git_branch_exists(p, task[t].new_branch))
                     => stops("Local branch not found.")
                /\ (task[t].pc = "ru_remote" /\ task'[t].pc # "ru_remote"
                      /\ git_find_remote_for_branch(p, task[t].old_branch) = ""
                      /\ ~git_remote_exists(p, "origin"))
                     => stops("No git remote configured for this worktree.")
                /\ (task[t].pc = "ru_exists" /\ task'[t].pc # "ru_exists"
                      /\ git_remote_branch_exists(p, task[t].remote_name,
                                                  task[t].new_branch))
                     => stops("Remote branch already exists.")]_vars

\* C18 witness: one call renamed a to b on the remote the old branch tracked
\* (push, deletion, upstream, all successful); a later call with the same
\* arguments was refused because the remote has b, without a push.
C18_Witness ==
  \E t \in Tasks, u \in Tasks :
    /\ task[t].op = "rename_worktree_upstream" /\ task[t].pc = "done"
    /\ task[t].ret = "Ok" /\ task[t].flag
    /\ task[t].log = <<GitRun("push new", TRUE), GitRun("delete old", TRUE),
                       GitRun("set upstream", TRUE)>>
    /\ task[u].op = "rename_worktree_upstream" /\ task[u].pc = "done"
    /\ task[u].ret = "Remote branch already exists." /\ task[u].log = <<>>
    /\ task[u].seq > task[t].seq
    /\ <<<<"b">>, task[t].remote_name>> \in repo.tracked

\* C18 witness, no remote of the old branch: the new branch was pushed to
\* origin and the upstream set.
C18_WitnessOrigin ==
  \E t \in Tasks :
    /\ task[t].op = "rename_worktree_upstream" /\ task[t].pc = "done"
    /\ task[t].ret = "Ok" /\ ~task[t].flag /\ task[t].remote_name = "origin"
    /\ task[t].log = <<GitRun("push new", TRUE), GitRun("set upstream", TRUE)>>

\* C19: when add_workspace has returned Ok(info) and no command has been
\* issued since, info has kind Main, connected true and default settings,
\* and list_workspaces contains info.id with connected true; when the next
\* command is remove_workspace(info.id) and it has returned Ok,
\* list_workspaces does not contain info.id.
C19_AddedIsListedThenRemovedIsNot ==
  \A t \in Tasks :
    (task[t].op = "add_workspace" /\ task[t].pc = "done" /\ task[t].ret = "Ok") =>
      LET info == task[t].info
      IN /\ info.kind = "Main" /\ info.connected
         /\ info.settings = DefaultSettings
         /\ task[t].seq = cmds =>
              /\ info.id \in DOMAIN list_workspaces
              /\ list_workspaces[info.id].connected
         /\ \A u \in Tasks :
              ( /\ task[u].op = "remove_workspace" /\ task[u].pc = "done"
                /\ task[u].id = info.id /\ task[u].ret = "Ok"
                /\ task[u].seq = task[t].seq + 1 /\ task[u].seq = cmds ) =>
                 info.id \notin DOMAIN list_workspaces

\* C19 witness: add_workspace returned Ok(info), then remove_workspace(info.id)
\* returned Ok.
C19_Witness ==
  \E t \in Tasks, u \in Tasks :
    /\ task[t].op = "add_workspace" /\ task[t].pc = "done" /\ task[t].ret = "Ok"
    /\ task[t].info.id = 3
    /\ task[u].op = "remove_workspace" /\ task[u].pc = "done"
    /\ task[u].id = task[t].info.id /\ task[u].ret = "Ok"
    /\ task[u].seq = task[t].seq + 1
    /\ 3 \notin DOMAIN workspaces

\* C19 witness, first half: add_workspace has just returned Ok(info) and the
\* list has info.id, connected.
C19_WitnessListed ==
  \E t \in Tasks :
    /\ task[t].op = "add_workspace" /\ task[t].pc = "done" /\ task[t].ret = "Ok"
    /\ task[t].seq = cmds
    /\ task[t].info.id \in DOMAIN list_workspaces
    /\ list_workspaces[task[t].info.id].connected

\* C20: two add_worktree calls for the same parent with the same branch
\* argument, one after the other or concurrent, never hold the same selected
\* worktree path, and no two Worktree entries of the registry have the same
\* path.
C20_NoTwoCallsSelectTheSamePath ==
  /\ \A t \in Tasks, u \in Tasks :
       ( /\ t # u
         /\ task[t].op = "add_worktree" /\ task[u].op = "add_worktree"
         /\ task[t].pc \in {"wt_git", "wt_spawn", "wt_insert", "wt_sessions"}
         /\ task[u].pc \in {"wt_git", "wt_spawn", "wt_insert", "wt_sessions"}
         /\ task[t].id = task[u].id
         /\ Trim(task[t].branch) = Trim(task[u].branch) ) =>
          task[t].entry.path # task[u].entry.path
  /\ \A i \in DOMAIN workspaces, j \in DOMAIN workspaces :
       ( /\ i # j /\ IsWorktree(workspaces[i]) /\ IsWorktree(workspaces[j]) ) =>
          workspaces[i].path # workspaces[j].path

\* C21: the list returned by list_workspaces has exactly the registry's ids
\* at the moment of the call, each info carries its entry's fields, and its
\* connected flag is true exactly when the sessions map has the id at that
\* moment; no entry of the persisted list carries a connected flag.
C21_ListIsSnapshotOfRegistryAndSessions ==
  /\ [](\A i \in DOMAIN persisted : "connected" \notin DOMAIN persisted[i])
  /\ [][\A t \in Tasks :
          ( /\ task'[t] # task[t] /\ task'[t].op = "list_workspaces"
            /\ task'[t].ret = "Ok" ) =>
             LET list == task'[t].list
             IN /\ DOMAIN list = DOMAIN workspaces
                /\ \A i \in DOMAIN list :
                     /\ list[i].id = i
                     /\ list[i] = WorkspaceInfo(workspaces[i], list[i].connected)
                     /\ list[i].connected <=> (i \in DOMAIN sessions)]_vars

\* C21 witness: list_workspaces returned after a workspace was added; the
\* list has the new entry connected and another entry not connected.
C21_Witness ==
  \E t \in Tasks :
    /\ task[t].op = "list_workspaces" /\ task[t].pc = "done" /\ task[t].ret = "Ok"
    /\ task[t].seq = 2
    /\ DOMAIN task[t].list = {1, 2, 3}
    /\ task[t].list[3].connected
    /\ ~task[t].list[2].connected

\* C22: whenever add_clone returns an error after git clone was invoked
\* (clone failure, spawn failure or write failure), the destination directory
\* is gone, the registry has no entry for the clone, the sessions map has no
\* session for it and the session spawned for it is not running.
C22_FailedCloneLeavesNothing ==
  [][\A t \in Tasks :
       ( /\ task[t].op = "add_clone"
         /\ task[t].pc \in {"ac_git", "ac_spawn", "ac_rollback"}
         /\ task'[t].pc = "done" /\ task'[t].ret # "Ok" ) =>
          /\ task[t].entry.path \notin dirs'
          /\ task[t].entry.id \notin DOMAIN workspaces'
          /\ task[t].entry.id \notin DOMAIN sessions'
          /\ task[t].sess \notin live']_vars

\* C23: when two update_workspace_settings calls on the same workspace have
\* both returned Ok and were the only commands, the persisted entry's
\* settings equal the in-memory entry's settings (those of the call that
\* mutated the registry last).
C23_LastCommitterWinsOnDisk ==
  \A t \in Tasks, u \in Tasks :
    ( /\ t # u
      /\ task[t].op = "update_workspace_settings" /\ task[t].pc = "done"
      /\ task[u].op = "update_workspace_settings" /\ task[u].pc = "done"
      /\ task[t].ret = "Ok" /\ task[u].ret = "Ok"
      /\ task[t].id = task[u].id
      /\ task[t].seq + task[u].seq = 3 ) =>
       /\ task[t].id \in DOMAIN persisted
       /\ persisted[task[t].id].settings = workspaces[task[t].id].settings

\* C24: the step of update_workspace_settings that mutates the registry also
\* takes the previous entry, the updated entry, the parent and the children
\* from the registry of that same step: the previous entry is the entry just
\* before the mutation, the updated entry the entry just after it, and the
\* settings comparison that decides on respawns is made between these two,
\* whatever another update on the same workspace is doing.
C24_SnapshotTakenAroundOwnMutation ==
  [][\A t \in Tasks :
       ( /\ Quiet(t) /\ task'[t] # task[t]
         /\ task'[t].op = "update_workspace_settings"
         /\ task'[t].pc # "done" ) =>
          LET id == task'[t].id
              changed ==
                \/ workspaces[id].settings.codex_home # workspaces'[id].settings.codex_home
                \/ workspaces[id].settings.codex_args # workspaces'[id].settings.codex_args
          IN /\ task'[t].prev = workspaces[id]
             /\ task'[t].entry = workspaces'[id]
             /\ task'[t].parent = Get(workspaces', workspaces'[id].parent_id)
             /\ task'[t].children = ChildrenOf(workspaces', id)
             /\ \A i \in DOMAIN workspaces \ {id} : workspaces'[i] = workspaces[i]
             /\ (task'[t].pc = "us_list") <=> ~changed
             /\ (task'[t].pc = "us_spawn") => changed]_vars

\* C24 witness: an update on workspace 1 is still running when a second
\* update on workspace 1 has taken its snapshot; the second call's previous
\* entry is the first call's updated entry.
C24_Witness ==
  \E t \in Tasks, u \in Tasks :
    /\ t # u
    /\ task[t].op = "update_workspace_settings" /\ task[t].pc \notin {"idle", "done"}
    /\ task[u].op = "update_workspace_settings" /\ task[u].pc \notin {"idle", "done"}
    /\ task[t].id = 1 /\ task[u].id = 1
    /\ task[t].seq < task[u].seq
    /\ task[u].prev = task[t].entry
    /\ task[t].entry.settings # DefaultSettings
    /\ task[u].entry.settings # task[t].entry.settings

\* The command op has just been started on a registered entry of the kind it
\* refuses.
StartedOnWrongKind(t) ==
  /\ Quiet(t) /\ task'[t] # task[t]
  /\ task'[t].id \in DOMAIN workspaces
  /\ \/ /\ task'[t].op = "remove_workspace"
        /\ IsWorktree(workspaces[task'[t].id])
     \/ /\ task'[t].op \in {"remove_worktree", "rename_worktree",
                            "rename_worktree_upstream", "apply_worktree_changes"}
        /\ ~IsWorktree(workspaces[task'[t].id])

\* The error the command gives for an entry of the wrong kind.
WrongKindError(op) ==
  IF op = "remove_workspace" THEN "Use remove_worktree for worktree agents."
  ELSE "Not a worktree workspace."

\* The wrong-kind error has been returned and nothing else has changed.
RefusedForKind(t) ==
  /\ task'[t].pc = "done"
  /\ task'[t].ret = WrongKindError(task'[t].op)
  /\ UNCHANGED <<workspaces, sessions, persisted, live, dirs, branches, repo>>

\* C25 as stated: an operation started on an entry of the wrong kind fails
\* with the wrong-kind error and changes nothing, whatever its other
\* arguments.
C25_WrongKindAlwaysRefusedForKind ==
  [][\A t \in Tasks : StartedOnWrongKind(t) => RefusedForKind(t)]_vars

\* C25 amended: an operation started on an entry of the wrong kind fails and
\* changes nothing; the error is the wrong-kind error unless the branch
\* arguments are refused first: rename_worktree with a blank branch and
\* rename_worktree_upstream with a blank branch get "Branch name is
\* required.", rename_worktree_upstream with equal branches gets "Branch name
\* is unchanged.".
C25_WrongKindRefusedAfterBranchChecks ==
  [][\A t \in Tasks :
       StartedOnWrongKind(t) =>
         /\ task'[t].pc = "done"
         /\ UNCHANGED <<workspaces, sessions, persisted, live, dirs, branches, repo>>
         /\ IF /\ task'[t].op = "rename_worktree"
               /\ Trim(task'[t].branch) = <<>>
            THEN task'[t].ret = "Branch name is required."
            ELSE IF /\ task'[t].op = "rename_worktree_upstream"
                    /\ (task'[t].old_branch = <<>> \/ task'[t].new_branch = <<>>)
            THEN task'[t].ret = "Branch name is required."
            ELSE IF /\ task'[t].op = "rename_worktree_upstream"
                    /\ task'[t].old_branch = task'[t].new_branch
            THEN task'[t].ret = "Branch name is unchanged."
            ELSE task'[t].ret = WrongKindError(task'[t].op)]_vars

\* C25 witness: remove_workspace was refused for worktree 2 and
\* rename_worktree for Main 1 with a branch name, both entries still
\* registered with their sessions.
C25_Witness ==
  \E t \in Tasks, u \in Tasks :
    /\ task[t].op = "remove_workspace" /\ task[t].pc = "done" /\ task[t].id = 2
    /\ task[t].ret = "Use remove_worktree for worktree agents."
    /\ task[u].op = "rename_worktree" /\ task[u].pc = "done" /\ task[u].id = 1
    /\ task[u].branch = <<"b">>
    /\ task[u].ret = "Not a worktree workspace."
    /\ workspaces = LoadedRegistry /\ persisted = LoadedRegistry
    /\ DOMAIN sessions = {1, 2} /\ live = {1, 2}

\* The commands of the claim that take a workspace id.
IdCommands ==
  {"add_clone", "add_worktree", "remove_workspace", "remove_worktree",
   "rename_worktree", "rename_worktree_upstream", "apply_worktree_changes",
   "update_workspace_settings", "update_workspace_codex_bin",
   "connect_workspace", "list_workspace_files"}

\* The not-found errors of the commands.
NotFoundErrors ==
  {"workspace not found", "source workspace not found", "parent workspace not found"}

\* A command of the claim has just been started locally with an id that is
\* not in the registry.
StartedOnAbsentId(t) ==
  /\ Quiet(t) /\ task'[t] # task[t]
  /\ task'[t].op \in IdCommands
  /\ task'[t].ret \notin {"remote ok", "remote error"}
  /\ task'[t].id \notin DOMAIN workspaces

\* The command has returned an error; no process was spawned and the
\* registry, the sessions map and the persisted list are as before.
FailedWithoutEffect(t) ==
  /\ task'[t].pc = "done" /\ task'[t].ret # "Ok"
  /\ UNCHANGED <<workspaces, sessions, persisted, live, nextPid>>

\* C26 as stated: a command given an id that is absent from the registry
\* fails with a not-found error, spawns nothing and changes nothing.
C26_AbsentIdAlwaysNotFound ==
  [][\A t \in Tasks :
       StartedOnAbsentId(t) =>
         /\ FailedWithoutEffect(t)
         /\ task'[t].ret \in NotFoundErrors]_vars

\* C26 amended: a command given an id that is absent from the registry
\* fails, spawns nothing and changes nothing; the error is a not-found error
\* unless an argument check comes first: add_clone may give its copy-name
\* error, add_worktree and rename_worktree give "Branch name is required."
\* for a blank branch, rename_worktree_upstream gives "Branch name is
\* required." for a blank branch and "Branch name is unchanged." for equal
\* branches.
C26_AbsentIdFailsAfterArgumentChecks ==
  [][\A t \in Tasks :
       StartedOnAbsentId(t) =>
         /\ FailedWithoutEffect(t)
         /\ IF task'[t].op = "add_clone"
            THEN task'[t].ret \in {"source workspace not found",
                                   "Copy name is required."}
            ELSE IF /\ task'[t].op \in {"add_worktree", "rename_worktree"}
                    /\ Trim(task'[t].branch) = <<>>
            THEN task'[t].ret = "Branch name is required."
            ELSE IF /\ task'[t].op = "rename_worktree_upstream"
                    /\ (task'[t].old_branch = <<>> \/ task'[t].new_branch = <<>>)
            THEN task'[t].ret = "Branch name is required."
            ELSE IF /\ task'[t].op = "rename_worktree_upstream"
                    /\ task'[t].old_branch = task'[t].new_branch
            THEN task'[t].ret = "Branch name is unchanged."
            ELSE task'[t].ret \in NotFoundErrors]_vars

\* C26 witness: after worktree 2 was removed, connect_workspace(2) returned
\* the not-found error; the registry has no entry 2 and the sessions map no
\* session for it.
C26_Witness ==
  \E t \in Tasks, u \in Tasks :
    /\ task[t].op = "remove_worktree" /\ task[t].pc = "done" /\ task[t].ret = "Ok"
    /\ task[t].id = 2
    /\ task[u].op = "connect_workspace" /\ task[u].pc = "done" /\ task[u].id = 2
    /\ task[u].ret = "workspace not found"
    /\ task[u].seq = task[t].seq + 1
    /\ 2 \notin DOMAIN workspaces /\ 2 \notin DOMAIN sessions

\* The positions at which a command is waiting for its session spawn.
SpawnPcs ==
  {"aw_spawn", "ac_spawn", "wt_spawn", "cn_spawn", "rn_spawn", "us_spawn",
   "us_child_spawn"}

C28_NoSessionAfterRemove ==
  [][\A t \in Tasks :
       /\ ( /\ task[t].op = "remove_workspace" /\ task[t].pc = "rm_final"
            /\ task'[t].pc = "done" /\ task'[t].ret = "Ok" ) =>
             /\ task[t].id \notin DOMAIN sessions'
             /\ \A c \in task[t].children : c.id \notin DOMAIN sessions'
       /\ ( /\ task[t].op = "remove_worktree" /\ task[t].pc = "rw_final"
            /\ task'[t].pc = "done" /\ task'[t].ret = "Ok" ) =>
             task[t].id \notin DOMAIN sessions'
       /\ ( /\ task[t].op \in {"remove_workspace", "remove_worktree"}
            /\ task'[t] # task[t] ) =>
             \A i \in DOMAIN sessions \ DOMAIN sessions' : sessions[i] \notin live']_vars

\* C29: when add_worktree fails after git worktree add has succeeded (the
\* spawn fails or the write fails), the worktree directory is gone, the
\* registry has no entry for the worktree and the session spawned for it is
\* not running.
C29_FailedAddWorktreeRolledBack ==
  [][\A t \in Tasks :
       ( /\ task[t].op = "add_worktree"
         /\ task[t].pc \in {"wt_spawn", "wt_insert"}
         /\ task'[t].pc = "done" /\ task'[t].ret # "Ok" ) =>
          /\ task[t].entry.path \notin dirs'
          /\ task[t].entry.id \notin DOMAIN workspaces'
          /\ task[t].sess \notin live']_vars

\* The entry has the shape of its kind: a Worktree carries a parent_id and a
\* branch, a Main carries neither.
WellShaped(e) ==
  /\ e.kind \in {"Main", "Worktree"}
  /\ (e.kind = "Worktree") <=> (e.parent_id # 0 /\ e.branch # <<>>)
  /\ (e.kind = "Main") => (e.parent_id = 0 /\ e.branch = <<>>)

\* C30: every registry entry is registered under its own id and has the
\* shape of its kind, and no step changes the id, kind or parent_id of an
\* entry that stays in the registry.
C30_EntriesKeepTheShapeOfTheirKind ==
  /\ [](\A i \in DOMAIN workspaces :
          workspaces[i].id = i /\ WellShaped(workspaces[i]))
  /\ [][\A i \in DOMAIN workspaces \cap DOMAIN workspaces' :
          /\ workspaces'[i].id = workspaces[i].id
          /\ workspaces'[i].kind = workspaces[i].kind
          /\ workspaces'[i].parent_id = workspaces[i].parent_id]_vars

\* C30 witness: worktree 2 was renamed, and a worktree and a main workspace
\* were added; all entries have the shape of their kind.
C30_Witness ==
  /\ \E t \in Tasks :
       /\ task[t].op = "rename_worktree" /\ task[t].pc = "done"
       /\ task[t].ret = "Ok" /\ task[t].id = 2
  /\ 2 \in DOMAIN workspaces
  /\ workspaces[2].kind = "Worktree" /\ workspaces[2].parent_id = 1
  /\ workspaces[2].branch # <<"a">>
  /\ 3 \in DOMAIN workspaces

\* The process is referenced: it is stored in the sessions map, or it is the
\* session a running command holds between its spawn and its insert.
Referenced(p) ==
  \/ \E i \in DOMAIN sessions : sessions[i] = p
  \/ \E t \in Tasks : ~Quiet(t) /\ task[t].sess = p

\* C31: every process that was spawned and not yet sent a kill request is
\* stored in the sessions map (or still held by the command that spawned
\* it): no command drops or overwrites a live session without killing it.
C31_NoLiveSessionUnreferenced ==
  \A p \in live : Referenced(p)

\* The guards a task may hold together: at most one mutex, except the
\* registry with the sessions map in list_workspaces and the sessions map
\* with a session's child when a session is killed.
LockOrder(t) ==
  \/ Cardinality(task[t].held) <= 1
  \/ task[t].held = {"workspaces", "sessions"} /\ task[t].op = "list_workspaces"
  \/ task[t].held = {"sessions", "child"}

\* C32: the mutexes are nested in one order only (registry before sessions,
\* sessions before child), and under any interleaving every command that
\* was started returns, provided every awaited call returns.
C32_EveryCommandCompletes ==
  /\ [](\A t \in Tasks : LockOrder(t))
  /\ \A t \in Tasks : (task[t].pc = "locks") ~> (task[t].pc = "done")

\* C32 witness: list_workspaces holds the registry and waits for the
\* sessions map while another command holds the sessions map and the child
\* of the session it kills.
C32_Witness ==
  \E t \in Tasks, u \in Tasks :
    /\ task[t].op = "list_workspaces" /\ task[t].held = {"workspaces"}
    /\ AtIns(t, "lock") /\ Ins(t)[2] = "sessions"
    /\ task[u].held = {"sessions", "child"}
    /\ AtIns(u, "call") /\ Ins(u)[2] = "kill"

\* The step in which update_workspace_settings of task t rolls back after
\* the spawn of the replacement session failed.
RollsBackSettings(t) ==
  /\ task[t].op = "update_workspace_settings" /\ task[t].pc = "us_spawn"
  /\ task'[t].pc = "done" /\ task'[t].ret = "spawn failed"

\* C33: the rollback of update_workspace_settings undoes only the call's own
\* settings change: it does not re-create an entry that was removed while
\* the spawn was in progress, and every field of the entry other than its
\* settings stays as the registry has it.
C33_RollbackUndoesOnlyOwnChange ==
  [][\A t \in Tasks :
       RollsBackSettings(t) =>
         IF task[t].id \in DOMAIN workspaces
         THEN workspaces' =
                [workspaces EXCEPT ![task[t].id].settings = task[t].prev.settings]
         ELSE workspaces' = workspaces]_vars

\* C34: when rename_worktree, issued as the only command since start-up,
\* returns an error, the registry is the loaded one (the entry's path and
\* branch are as before the call), the persisted list equals the registry
\* and the Git branch carries its old name.
C34_FailedRenameLeavesEverythingAsBefore ==
  \A t \in Tasks :
    ( /\ task[t].op = "rename_worktree" /\ task[t].pc = "done"
      /\ task[t].ret # "Ok" /\ cmds = 1 )
    => /\ workspaces = LoadedRegistry
       /\ persisted = workspaces
       /\ branches = LoadedBranches

\* The step in which the respawn of rename_worktree fails and the command
\* returns.
RespawnFails(t) ==
  /\ task[t].op = "rename_worktree" /\ task[t].pc = "rn_spawn"
  /\ task'[t].pc = "done"

\* C35 as stated: when the respawn after a rename fails, rename_worktree
\* returns Ok, the workspace has no session and the returned connected flag
\* is false.
C35_FailedRespawnLeavesNoSession ==
  [][\A t \in Tasks :
       RespawnFails(t) =>
         /\ task'[t].ret = "Ok"
         /\ task[t].id \notin DOMAIN sessions'
         /\ task'[t].flag = FALSE]_vars

\* C35, amended: rename_worktree takes the old session out of the map and
\* kills it before the spawn; when the spawn fails the command returns Ok,
\* installs and kills nothing more, and the returned connected flag is the
\* presence of the id in the sessions map at that time (a session connected
\* by another command in the meantime is reported and kept).
C35_FailedRespawnReportsSessionsMap ==
  [][\A t \in Tasks :
       /\ (task[t].op = "rename_worktree" /\ task[t].pc = "rn_remove"
             /\ task'[t].pc = "rn_spawn")
          => /\ task[t].id \notin DOMAIN sessions'
             /\ task[t].id \in DOMAIN sessions => sessions[task[t].id] \notin live'
       /\ RespawnFails(t)
          => /\ task'[t].ret = "Ok"
             /\ sessions' = sessions /\ live' = live
             /\ task'[t].flag = (task[t].id \in DOMAIN sessions')]_vars

\* C35 witness: rename_worktree of the connected worktree 2, the only
\* command issued, has returned Ok after its respawn failed: the old
\* session is killed, no process was spawned, the worktree has no session.
C35_Witness ==
  \E t \in Tasks :
    /\ task[t].op = "rename_worktree" /\ task[t].pc = "done"
    /\ task[t].ret = "Ok" /\ task[t].id = 2 /\ task[t].flag = FALSE
    /\ cmds = 1 /\ nextPid = 3
    /\ 2 \notin live /\ 2 \notin DOMAIN sessions
    /\ persisted = workspaces /\ workspaces[2].branch # <<"a">>

\* The positions of update_workspace_settings inside its loop over the
\* child worktrees.
ChildLoopPcs == {"us_children", "us_child_spawn", "us_child_install"}

\* C36: in update_workspace_settings the failed respawn of a child changes
\* neither the registry, the stored list nor any session, the loop goes on
\* with the remaining children, the command does not return from inside the
\* loop, and it ends by writing the list it read from the registry, with Ok
\* when the write succeeds.
C36_ChildRespawnFailureIsSkipped ==
  [][\A t \in Tasks :
       task[t].op = "update_workspace_settings" =>
         /\ (task[t].pc = "us_child_spawn"
               /\ task'[t].pc \notin {"us_child_spawn", "us_child_install"})
            => /\ task'[t].pc = "us_children"
               /\ task'[t].todo = task[t].todo \ {task[t].child.id}
               /\ task'[t].entry = task[t].entry
               /\ sessions' = sessions /\ live' = live
               /\ workspaces' = workspaces /\ persisted' = persisted
         /\ task[t].pc \in ChildLoopPcs
            => task'[t].pc \in ChildLoopPcs \cup {"us_write"}
         /\ (task[t].pc \in ChildLoopPcs /\ task'[t].pc = "us_write")
            => task[t].todo = {} /\ task'[t].list = workspaces
         /\ (task[t].pc = "us_write" /\ task'[t].pc = "done")
            => \/ task'[t].ret = "Ok" /\ persisted' = task[t].list
               \/ task'[t].ret = "write failed" /\ persisted' = persisted]_vars

\* C36 witness: update_workspace_settings of Main 1, the only command
\* issued, changed the codex_args its connected worktree 2 inherits and
\* returned Ok; worktree 2 still has the session it had at start-up, no
\* process was spawned for it, and the new settings are stored.
C36_Witness ==
  \E t \in Tasks :
    /\ task[t].op = "update_workspace_settings" /\ task[t].pc = "done"
    /\ task[t].ret = "Ok" /\ task[t].id = 1 /\ cmds = 1
    /\ workspaces[1].settings.codex_args # <<>>
    /\ persisted = workspaces
    /\ 1 \notin DOMAIN sessions
    /\ 2 \in DOMAIN sessions /\ sessions[2] = 2 /\ 2 \in live /\ nextPid = 3

\* C37: executed locally, update_workspace_codex_bin changes the codex_bin
\* of the named entry and nothing else in the registry, writes the list it
\* read in that critical section, spawns, inserts, removes and kills no
\* session, and returns the connected flag read from the sessions map.
C37_CodexBinChangesOnlyCodexBin ==
  [][\A t \in Tasks :
       /\ (StartsCmd(t, "update_workspace_codex_bin") /\ ~remote)
          => /\ sessions' = sessions /\ live' = live /\ nextPid' = nextPid
             /\ persisted' = persisted
             /\ IF task'[t].id \in DOMAIN workspaces
                THEN /\ \E bin \in BinVals :
                          workspaces' =
                            [workspaces EXCEPT ![task'[t].id].codex_bin = bin]
                     /\ task'[t].pc = "cb_write"
                     /\ task'[t].list = workspaces'
                ELSE /\ workspaces' = workspaces
                     /\ task'[t].pc = "done"
                     /\ task'[t].ret = "workspace not found"
       /\ (task[t].pc = "cb_write" /\ task'[t].pc = "done")
          => /\ sessions' = sessions /\ live' = live /\ nextPid' = nextPid
             /\ workspaces' = workspaces
             /\ \/ /\ task'[t].ret = "Ok" /\ persisted' = task[t].list
                   /\ task'[t].flag = (task[t].id \in DOMAIN sessions')
                \/ task'[t].ret = "write failed" /\ persisted' = persisted]_vars

\* C37 witness: update_workspace_codex_bin of the connected Main 1, the only
\* command issued, returned Ok: the entry has the new codex_bin, the list is
\* stored, the session is the one of start-up and the flag says connected.
C37_Witness ==
  \E t \in Tasks :
    /\ task[t].op = "update_workspace_codex_bin" /\ task[t].pc = "done"
    /\ task[t].ret = "Ok" /\ task[t].id = 1 /\ cmds = 1
    /\ workspaces[1].codex_bin # <<>>
    /\ workspaces = [LoadedRegistry EXCEPT ![1].codex_bin = workspaces[1].codex_bin]
    /\ persisted = workspaces
    /\ task[t].flag /\ 1 \in DOMAIN sessions /\ sessions[1] = 1 /\ 1 \in live
    /\ nextPid = 3
====
